---------------------------- MODULE Spec2Model ----------------------------
(***************************************************************************)
(* A model of the battle engine of pokemon-rnb-helper/backend:             *)
(*   battle_logic.py  type chart, damage, action selection, apply_move,    *)
(*                    apply_switch, find_best_move (minimax)               *)
(*   main.py          calculate_battle_strategy and simulate_turn          *)
(*                                                                         *)
(* Representation.  A battle state is the nested dict of the program: two  *)
(* teams, each a list of pokemon and an active_pokemon_index, and the      *)
(* weather.  A pokemon is [name, HP, keys, current_hp]: HP is              *)
(* stats["HP"], the field apply_move writes; current_hp is the key written *)
(* by simulate_move and evaluate_position, and keys tells whether the dict *)
(* has that key ("current_hp" in pokemon).  Every other key of a pokemon   *)
(* (types, level, moves, the other stats) is never assigned by the program *)
(* and is looked up by name in Dex.  Python indexes are 0-based, TLA+ sequences 1-based: *)
(* an index i of the program is kept as i and used as seq[i + 1].          *)
(*                                                                         *)
(* Python objects are mutable and shared by reference, so the dict objects *)
(* live in `heap` (object id -> value) and variables hold ids:             *)
(* copy.deepcopy allocates a new object, an assignment shares one.         *)
(*                                                                         *)
(* Floats are modelled by exact rationals [n, d].                          *)
(***************************************************************************)
EXTENDS Integers, Sequences, FiniteSets, TLC

\* Python's None where a string is expected (weather, winner)
None == "None"

\* an Optional[int]: <<>> is None, <<k>> is the integer k
NoInt == <<>>

Some(k) == <<k>>

----------------------------------------------------------------------------
(* Rational arithmetic standing for the program's float arithmetic.        *)

\* float('inf') and float('-inf') are the rationals 1/0 and -1/0
PosInf == [n |-> 1, d |-> 0]

NegInf == [n |-> -1, d |-> 0]

RECURSIVE GCD(_, _)
GCD(a, b) == IF b = 0 THEN a ELSE GCD(b, a % b)

Abs(k) == IF k < 0 THEN -k ELSE k

\* the rational n/d (d > 0) in lowest terms
R(n, d) ==
  LET g == GCD(Abs(n), d)
  IN [n |-> n \div g, d |-> d \div g]

RInt(k) == [n |-> k, d |-> 1]

IsInf(a) == a.d = 0

RAdd(a, b) ==
  IF IsInf(a) THEN a
  ELSE IF IsInf(b) THEN b
  ELSE R(a.n * b.d + b.n * a.d, a.d * b.d)

RSub(a, b) == R(a.n * b.d - b.n * a.d, a.d * b.d)

RMul(a, b) == R(a.n * b.n, a.d * b.d)

\* a / b for b > 0
RDiv(a, b) == R(a.n * b.d, a.d * b.n)

RLt(a, b) ==
  IF IsInf(a) \/ IsInf(b)
  THEN (IF IsInf(a) THEN a.n ELSE 0) < (IF IsInf(b) THEN b.n ELSE 0)
  ELSE a.n * b.d < b.n * a.d

RLe(a, b) == ~RLt(b, a)

REq(a, b) == ~RLt(a, b) /\ ~RLt(b, a)

RMax(a, b) == IF RLt(a, b) THEN b ELSE a

RMin(a, b) == IF RLt(b, a) THEN b ELSE a

\* math.floor
Floor(a) == a.n \div a.d

----------------------------------------------------------------------------
(* battle_logic.py: TYPE_CHART.  Factors are stored doubled (0, 0.5, 2 as  *)
(* 0, 1, 4); a pair that is not listed is absent, as in the dict.          *)

TYPE_CHART ==
  [
    Normal |-> [Ghost |-> 0, Rock |-> 1, Steel |-> 1],
    Fire |-> [Fire |-> 1, Water |-> 1, Grass |-> 4, Ice |-> 4, Bug |-> 4, Rock |-> 1, Dragon |-> 1, Steel |-> 4],
    Water |-> [Fire |-> 4, Water |-> 1, Grass |-> 1, Ground |-> 4, Rock |-> 4, Dragon |-> 1],
    Electric |-> [Water |-> 4, Electric |-> 1, Grass |-> 1, Ground |-> 0, Flying |-> 4, Dragon |-> 1],
    Grass |-> [Fire |-> 1, Water |-> 4, Grass |-> 1, Poison |-> 1, Ground |-> 4, Flying |-> 1, Bug |-> 1, Rock |-> 4, Dragon |-> 1, Steel |-> 1],
    Ice |-> [Fire |-> 1, Water |-> 1, Grass |-> 4, Ice |-> 1, Ground |-> 4, Flying |-> 4, Dragon |-> 4, Steel |-> 1],
    Fighting |-> [Normal |-> 4, Ice |-> 4, Poison |-> 1, Flying |-> 1, Psychic |-> 1, Bug |-> 1, Rock |-> 4, Ghost |-> 0, Dark |-> 4, Steel |-> 4, Fairy |-> 1],
    Poison |-> [Grass |-> 4, Poison |-> 1, Ground |-> 1, Rock |-> 1, Ghost |-> 1, Steel |-> 0, Fairy |-> 4],
    Ground |-> [Fire |-> 4, Electric |-> 4, Grass |-> 1, Poison |-> 4, Flying |-> 0, Bug |-> 1, Rock |-> 4, Steel |-> 4],
    Flying |-> [Electric |-> 1, Grass |-> 4, Fighting |-> 4, Bug |-> 4, Rock |-> 1, Steel |-> 1],
    Psychic |-> [Fighting |-> 4, Poison |-> 4, Psychic |-> 1, Dark |-> 0, Steel |-> 1],
    Bug |-> [Fire |-> 1, Grass |-> 4, Fighting |-> 1, Poison |-> 1, Flying |-> 1, Psychic |-> 4, Ghost |-> 1, Dark |-> 4, Steel |-> 1, Fairy |-> 1],
    Rock |-> [Fire |-> 4, Ice |-> 4, Fighting |-> 1, Ground |-> 1, Flying |-> 4, Bug |-> 4, Steel |-> 1],
    Ghost |-> [Normal |-> 0, Psychic |-> 4, Ghost |-> 4, Dark |-> 1],
    Dragon |-> [Dragon |-> 4, Steel |-> 1, Fairy |-> 0],
    Dark |-> [Fighting |-> 1, Psychic |-> 4, Ghost |-> 4, Dark |-> 1, Fairy |-> 1],
    Steel |-> [Fire |-> 1, Water |-> 1, Electric |-> 1, Ice |-> 4, Rock |-> 4, Steel |-> 1, Fairy |-> 4],
    Fairy |-> [Fire |-> 1, Fighting |-> 4, Poison |-> 1, Dragon |-> 4, Dark |-> 4, Steel |-> 1]
  ]

\* main.py: class Type
Type == DOMAIN TYPE_CHART

----------------------------------------------------------------------------
(* The combatants battles are drawn from: requests of the shape of         *)
(* main.py's Pokemon and Move, at level 5.                                 *)

Move(name, type, category, power, priority) ==
  [name |-> name, type |-> type, category |-> category, power |-> power,
   priority |-> priority]

Stats(atk, def, spa, spd, spe) ==
  "Attack" :> atk @@ "Defense" :> def @@ "Sp. Attack" :> spa @@
  "Sp. Defense" :> spd @@ "Speed" :> spe

Dex ==
  [
    Rattata |->
      [types |-> <<"Normal">>, level |-> 5, fullHP |-> 13,
       stats |-> Stats(11, 9, 7, 9, 14),
       moves |-> << Move("Quick Attack", "Normal", "Physical", Some(40), 1),
                    Move("Tackle", "Normal", "Physical", Some(40), 0) >>],
    Gastly |->
      [types |-> <<"Ghost", "Poison">>, level |-> 5, fullHP |-> 12,
       stats |-> Stats(8, 8, 14, 8, 13),
       moves |-> << Move("Lick", "Ghost", "Physical", Some(30), 0),
                    Move("Pursuit", "Dark", "Physical", Some(40), 0) >>],
    Squirtle |->
      [types |-> <<"Water">>, level |-> 5, fullHP |-> 15,
       stats |-> Stats(10, 12, 10, 12, 9),
       moves |-> << Move("Water Gun", "Water", "Special", Some(40), 0),
                    Move("Tail Whip", "Normal", "Status", NoInt, 0) >>],
    \* moves: List[Move] may be empty
    Magikarp |->
      [types |-> <<"Water">>, level |-> 5, fullHP |-> 11,
       stats |-> Stats(6, 10, 7, 8, 13),
       moves |-> << >>]
  ]

\* the species that know no move
Moveless == {s \in DOMAIN Dex : Dex[s].moves = << >>}

\* the species battles are drawn from: those that know a move
Species == DOMAIN Dex \ Moveless

\* the keys of a pokemon dict the program only reads
types(pokemon) == Dex[pokemon.name].types

level(pokemon) == Dex[pokemon.name].level

moves(pokemon) == Dex[pokemon.name].moves

\* pokemon["stats"][key]: "HP" is the mutable field, the rest is static
stats(pokemon, key) ==
  IF key = "HP" THEN pokemon.HP ELSE Dex[pokemon.name].stats[key]

----------------------------------------------------------------------------
(* battle_logic.py: calculate_type_effectiveness                           *)

RECURSIVE TypeProduct(_, _, _)
TypeProduct(move_type, defender_types, k) ==
  IF k = 0 THEN RInt(1)
  ELSE LET def_type == defender_types[k]
           rest == TypeProduct(move_type, defender_types, k - 1)
       IN IF move_type \in DOMAIN TYPE_CHART
             /\ def_type \in DOMAIN TYPE_CHART[move_type]
          THEN RMul(rest, R(TYPE_CHART[move_type][def_type], 2))
          ELSE rest

\* a faulty variant of lines 46-48: the loop left after the first type
calculate_type_effectiveness_FirstOnly(move_type, defender_types) ==
  TypeProduct(move_type, defender_types, IF defender_types = <<>> THEN 0 ELSE 1)

calculate_type_effectiveness(move_type, defender_types) ==
  TypeProduct(move_type, defender_types, Len(defender_types))

InSeq(x, s) == \E k \in 1..Len(s) : s[k] = x

(* battle_logic.py: calculate_damage, returning <<min_damage, max_damage>>.*)
(* A value the function uses more than once is the parameter of a helper, *)
(* so that every definition is expanded once.                              *)

\* lines 66-71
AttackStat(move, attacker) ==
  IF move.category = "Physical"
  THEN stats(attacker, "Attack") ELSE stats(attacker, "Sp. Attack")

DefenseStat(move, defender) ==
  IF move.category = "Physical"
  THEN stats(defender, "Defense") ELSE stats(defender, "Sp. Defense")

\* line 75: (2 * level / 5 + 2) * base_power * atk / def_ / 50 + 2
BaseDamage(lvl, base_power, atk, def_) ==
  RAdd(RDiv(RDiv(RMul(RMul(RAdd(R(2 * lvl, 5), RInt(2)), RInt(base_power)),
                      RInt(atk)),
                 RInt(def_)),
            RInt(50)),
       RInt(2))

\* line 60
Stab(move, attacker) ==
  IF InSeq(move.type, types(attacker)) THEN R(3, 2) ELSE RInt(1)

\* lines 81-85
WeatherModifier(modifiers, move, weather) ==
  IF weather # None
     /\ \/ (weather = "Sun" /\ move.type = "Fire")
        \/ (weather = "Rain" /\ move.type = "Water")
  THEN RMul(modifiers, R(3, 2))
  ELSE modifiers

\* a faulty variant of lines 88-89: the factor 0.85 on the other bound
DamageRange_Swapped(damage) == <<Floor(damage), Floor(RMul(damage, R(17, 20)))>>

\* lines 88-89, from base_damage * modifiers
DamageRange(damage) == <<Floor(RMul(damage, R(17, 20))), Floor(damage)>>

\* a faulty variant of lines 75-85: the modifiers applied to the damage
\* without its flat 2, which is added after them
calculate_damage_FlatAfterModifiers(move, attacker, defender, weather) ==
  IF move.power = NoInt THEN <<0, 0>>
  ELSE DamageRange(
         RAdd(RMul(RSub(BaseDamage(level(attacker), move.power[1],
                                   AttackStat(move, attacker),
                                   DefenseStat(move, defender)),
                        RInt(2)),
                   WeatherModifier(
                     RMul(Stab(move, attacker),
                          calculate_type_effectiveness(move.type, types(defender))),
                     move, weather)),
              RInt(2)))

calculate_damage(move, attacker, defender, weather) ==
  IF move.power = NoInt THEN <<0, 0>>
  ELSE DamageRange(
         RMul(BaseDamage(level(attacker), move.power[1],
                         AttackStat(move, attacker), DefenseStat(move, defender)),
              WeatherModifier(
                RMul(Stab(move, attacker),
                     calculate_type_effectiveness(move.type, types(defender))),
                move, weather)))

----------------------------------------------------------------------------
(* battle_logic.py: class BattleAction, and the keys of a battle state     *)

BattleAction(action_type, user, index) ==
  [action_type |-> action_type, user |-> user, index |-> index]

\* the None a function returns in place of a BattleAction
NoAction == [action_type |-> "None"]

\* a Python exception leaving the function that raised it
Raise(exc) == [action_type |-> "raise", exc |-> exc]

IsRaise(r) == r.action_type = "raise"

\* an f-string: the template and the values formatted into it
Msg(template, a, b, k) == [template |-> template, a |-> a, b |-> b, k |-> k]

TeamKey(user) == IF user = "player" THEN "player_team" ELSE "opponent_team"

OppKey(user) == IF user = "player" THEN "opponent_team" ELSE "player_team"

\* battle_state[key]["pokemon"][index], index counted from 0
Pokemon(battle_state, key, index) == battle_state[key].pokemon[index + 1]

ActiveIndex(battle_state, key) == battle_state[key].active_pokemon_index

Active(battle_state, key) ==
  battle_state[key].pokemon[battle_state[key].active_pokemon_index + 1]

TeamSize(battle_state, key) == Len(battle_state[key].pokemon)

\* any(p["stats"].get("HP", 0) > 0 for p in battle_state[key]["pokemon"])
Alive(battle_state, key) ==
  \E k \in 1..Len(battle_state[key].pokemon) : battle_state[key].pokemon[k].HP > 0

----------------------------------------------------------------------------
(* battle_logic.py: evaluate_move                                          *)

\* lines 257-262
DamageScore(dmg, defender) ==
  IF defender.HP > 0
  THEN RMul(RDiv(R(dmg[1] + dmg[2], 2), RInt(defender.HP)), RInt(100))
  ELSE RInt(0)

\* lines 265-266
StabBonus(score, move, attacker) ==
  IF InSeq(move.type, types(attacker)) THEN RAdd(score, RInt(20)) ELSE score

\* lines 269-271
EffectivenessBonus(score, effectiveness) ==
  IF RLt(RInt(1), effectiveness)
  THEN RAdd(score, RMul(RInt(30), effectiveness)) ELSE score

\* lines 274-275: attacker["stats"]["HP"] < attacker["stats"]["HP"] * 0.3
PriorityBonus(score, move, attacker) ==
  IF move.priority > 0
     /\ RLt(RInt(attacker.HP), RMul(RInt(attacker.HP), R(3, 10)))
  THEN RAdd(score, RInt(40)) ELSE score

EvaluateMove(move, attacker, defender, weather) ==
  PriorityBonus(
    EffectivenessBonus(
      StabBonus(
        DamageScore(calculate_damage(move, attacker, defender, weather), defender),
        move, attacker),
      calculate_type_effectiveness(move.type, types(defender))),
    move, attacker)

evaluate_move(move, battle_state, user) ==
  EvaluateMove(move, Active(battle_state, TeamKey(user)),
               Active(battle_state, OppKey(user)), battle_state.weather)

(* battle_logic.py: evaluate_switches                                      *)

\* lines 299-301
ResistBonus(score, effectiveness) ==
  IF RLt(effectiveness, RInt(1))
  THEN RAdd(score, RMul(RInt(30), RSub(RInt(1), effectiveness)))
  ELSE score

RECURSIVE ResistScore(_, _, _)
ResistScore(opp_moves, pokemon, k) ==
  IF k = 0 THEN RInt(0)
  ELSE ResistBonus(ResistScore(opp_moves, pokemon, k - 1),
                   calculate_type_effectiveness(opp_moves[k].type, types(pokemon)))

\* lines 305-307
MatchupBonus(score, effectiveness) ==
  IF RLt(RInt(1), effectiveness)
  THEN RAdd(score, RMul(RInt(20), effectiveness))
  ELSE score

RECURSIVE MatchupScore(_, _, _)
MatchupScore(own_types, opponent, k) ==
  IF k = 0 THEN RInt(0)
  ELSE MatchupBonus(MatchupScore(own_types, opponent, k - 1),
                    calculate_type_effectiveness(own_types[k], types(opponent)))

\* the score the loop body gives one pokemon of the team
SwitchScore(pokemon, opponent) ==
  RAdd(ResistScore(moves(opponent), pokemon, Len(moves(opponent))),
       MatchupScore(types(pokemon), opponent, Len(types(pokemon))))

\* lines 291-309: best_score after the first k pokemon of the team
RECURSIVE BestSwitchScore(_, _, _)
BestSwitchScore(team, opponent, k) ==
  IF k = 0 THEN RInt(0)
  ELSE IF team[k].HP <= 0 THEN BestSwitchScore(team, opponent, k - 1)
  ELSE RMax(BestSwitchScore(team, opponent, k - 1),
            SwitchScore(team[k], opponent))

evaluate_switches(battle_state, user) ==
  BestSwitchScore(battle_state[TeamKey(user)].pokemon,
                  Active(battle_state, OppKey(user)),
                  TeamSize(battle_state, TeamKey(user)))

----------------------------------------------------------------------------
(* battle_logic.py: determine_best_action                                  *)

\* a faulty variant of lines 219 and 239: the test i != active_pokemon_index
\* is missing
SwitchTargets_ActiveAllowed(battle_state, team_key) ==
  {i \in 0..(TeamSize(battle_state, team_key) - 1) :
     Pokemon(battle_state, team_key, i).HP > 0}

\* the indexes i with HP > 0 and i != active_pokemon_index
SwitchTargets(battle_state, team_key) ==
  {i \in 0..(TeamSize(battle_state, team_key) - 1) :
     /\ Pokemon(battle_state, team_key, i).HP > 0
     /\ i # ActiveIndex(battle_state, team_key)}

\* a faulty variant: the last of the combatants the loop would accept
Least_Last(S) == CHOOSE i \in S : \A j \in S : i >= j

Least(S) == CHOOSE i \in S : \A j \in S : i <= j

\* lines 218-221 and 238-241: the loop returns a switch to the first of them
FirstSwitch(battle_state, user) ==
  BattleAction("switch", user, Least(SwitchTargets(battle_state, TeamKey(user))))

\* lines 231-233
BetterMove(best, score, i) ==
  IF RLt(best.score, score) THEN [score |-> score, index |-> i] ELSE best

\* lines 226-233: [score, index] after the first k moves
RECURSIVE BestMove(_, _, _, _)
BestMove(ms, battle_state, user, k) ==
  IF k = 0 THEN [score |-> NegInf, index |-> 0]
  ELSE BetterMove(BestMove(ms, battle_state, user, k - 1),
                  evaluate_move(ms[k], battle_state, user), k - 1)

\* a faulty variant of line 237: the comparison without the margin of 20
MoveOrSwitch_NoMargin(battle_state, user, active_pokemon, best, best_switch_score) ==
  IF RLt(best.score, best_switch_score)
     /\ SwitchTargets(battle_state, TeamKey(user)) # {}
  THEN FirstSwitch(battle_state, user)
  ELSE IF best.index >= Len(moves(active_pokemon)) THEN Raise("IndexError")
  ELSE BattleAction("move", user, best.index)

\* lines 236-244
MoveOrSwitch(battle_state, user, active_pokemon, best, best_switch_score) ==
  IF RLt(RAdd(best.score, RInt(20)), best_switch_score)
     /\ SwitchTargets(battle_state, TeamKey(user)) # {}
  THEN FirstSwitch(battle_state, user)
  \* line 243 prints active_pokemon['moves'][best_move_index]['name']
  ELSE IF best.index >= Len(moves(active_pokemon)) THEN Raise("IndexError")
  ELSE BattleAction("move", user, best.index)

\* a faulty variant of lines 215-223: without the return of None the code
\* goes on to pick a move
ForcedSwitch_FallsThrough(battle_state, user) ==
  IF SwitchTargets(battle_state, TeamKey(user)) # {}
  THEN FirstSwitch(battle_state, user)
  ELSE BattleAction("move", user, 0)

\* lines 215-223
ForcedSwitch(battle_state, user) ==
  IF SwitchTargets(battle_state, TeamKey(user)) # {}
  THEN FirstSwitch(battle_state, user)
  ELSE NoAction

BestActionOf(battle_state, user, active_pokemon) ==
  IF active_pokemon.HP <= 0
  THEN ForcedSwitch(battle_state, user)
  ELSE MoveOrSwitch(battle_state, user, active_pokemon,
                    BestMove(moves(active_pokemon), battle_state, user,
                             Len(moves(active_pokemon))),
                    evaluate_switches(battle_state, user))

determine_best_action(battle_state, user) ==
  BestActionOf(battle_state, user, Active(battle_state, TeamKey(user)))

----------------------------------------------------------------------------
(* battle_logic.py: apply_switch and apply_move.  Both write into the dict *)
(* they are given and return a result dict; here they return               *)
(* [state: the dict after the call, result: the returned dict].            *)

\* the returned dict; action_desc is kept without the names formatted into it
Result(action_desc, effects, log) ==
  [action_type |-> "result", action_desc |-> action_desc, effects |-> effects,
   log |-> log]

\* a faulty variant of lines 364-389: the test of lines 365-371 for a
\* fainted target is missing
SwitchTo_FaintedAllowed(battle_state, action, team_key, current_pokemon, new_pokemon) ==
  IF action.index = ActiveIndex(battle_state, team_key)
  THEN [state |-> battle_state,
        result |-> Result("Invalid switch", <<>>,
           << Msg("Cannot switch to already active {}", new_pokemon.name, "", 0) >>)]
  ELSE [state |-> [battle_state EXCEPT
                     ![team_key].active_pokemon_index = action.index],
        result |-> Result("Switched", <<"switch">>,
           << Msg("{} was withdrawn!", current_pokemon.name, "", 0),
              Msg("Go! {}!", new_pokemon.name, "", 0) >>)]

\* a faulty variant of lines 364-389: the switch is reported but line 382,
\* the assignment of active_pokemon_index, is missing
SwitchTo_IndexKept(battle_state, action, team_key, current_pokemon, new_pokemon) ==
  IF new_pokemon.HP <= 0
  THEN [state |-> battle_state,
        result |-> Result("Invalid switch", <<>>,
           << Msg("Cannot switch to fainted {}", new_pokemon.name, "", 0) >>)]
  ELSE IF action.index = ActiveIndex(battle_state, team_key)
  THEN [state |-> battle_state,
        result |-> Result("Invalid switch", <<>>,
           << Msg("Cannot switch to already active {}", new_pokemon.name, "", 0) >>)]
  ELSE [state |-> battle_state,
        result |-> Result("Switched", <<"switch">>,
           << Msg("{} was withdrawn!", current_pokemon.name, "", 0),
              Msg("Go! {}!", new_pokemon.name, "", 0) >>)]

\* lines 364-389
SwitchTo(battle_state, action, team_key, current_pokemon, new_pokemon) ==
  IF new_pokemon.HP <= 0
  THEN [state |-> battle_state,
        result |-> Result("Invalid switch", <<>>,
           << Msg("Cannot switch to fainted {}", new_pokemon.name, "", 0) >>)]
  ELSE IF action.index = ActiveIndex(battle_state, team_key)
  THEN [state |-> battle_state,
        result |-> Result("Invalid switch", <<>>,
           << Msg("Cannot switch to already active {}", new_pokemon.name, "", 0) >>)]
  ELSE [state |-> [battle_state EXCEPT
                     ![team_key].active_pokemon_index = action.index],
        result |-> Result("Switched", <<"switch">>,
           << Msg("{} was withdrawn!", current_pokemon.name, "", 0),
              Msg("Go! {}!", new_pokemon.name, "", 0) >>)]

apply_switch(battle_state, action) ==
  \* line 362: battle_state[team_key]["pokemon"][action.index]
  IF action.index >= TeamSize(battle_state, TeamKey(action.user))
  THEN [state |-> battle_state, result |-> Raise("IndexError")]
  ELSE SwitchTo(battle_state, action, TeamKey(action.user),
                Active(battle_state, TeamKey(action.user)),
                Pokemon(battle_state, TeamKey(action.user), action.index))

\* a faulty variant of line 427: the subtraction without max(0, ...)
ClampHP_Unclamped(old_hp, damage) == old_hp - damage

\* line 427: max(0, old_hp - damage)
ClampHP(old_hp, damage) == IF old_hp - damage > 0 THEN old_hp - damage ELSE 0

\* lines 432-438
EffectivenessText(effectiveness) ==
  IF RLt(RInt(1), effectiveness) THEN "It's super effective!"
  ELSE IF RLt(effectiveness, RInt(1)) THEN "It's not very effective..."
  ELSE IF REq(effectiveness, RInt(0))
       THEN "It doesn't affect the opposing Pokemon..."
  ELSE ""

\* a faulty variant of line 447: the faint note only below HP 0
MoveLog_FaintBelowZero(attacker, defender, move, effectiveness_text, actual_damage, new_hp) ==
  << Msg("{} used {}!", attacker.name, move.name, 0) >>
  \o (IF effectiveness_text # ""
      THEN << Msg(effectiveness_text, "", "", 0) >> ELSE <<>>)
  \o (IF actual_damage > 0
      THEN << Msg("Dealt {} damage!", "", "", actual_damage) >> ELSE <<>>)
  \o (IF new_hp < 0
      THEN << Msg("{} fainted!", defender.name, "", 0) >> ELSE <<>>)

\* lines 440-448
MoveLog(attacker, defender, move, effectiveness_text, actual_damage, new_hp) ==
  << Msg("{} used {}!", attacker.name, move.name, 0) >>
  \o (IF effectiveness_text # ""
      THEN << Msg(effectiveness_text, "", "", 0) >> ELSE <<>>)
  \o (IF actual_damage > 0
      THEN << Msg("Dealt {} damage!", "", "", actual_damage) >> ELSE <<>>)
  \o (IF new_hp <= 0
      THEN << Msg("{} fainted!", defender.name, "", 0) >> ELSE <<>>)

\* a faulty variant of line 427: the new HP is written to the first combatant
\* of the defending team, not to its active one
Damaged_FirstOfTeamHit(battle_state, opp_key, attacker, defender, move, effectiveness_text, new_hp) ==
  [state |-> [battle_state EXCEPT ![opp_key].pokemon[1].HP = new_hp],
   result |-> Result("Used move",
                     IF effectiveness_text # "" THEN <<effectiveness_text>>
                     ELSE <<>>,
                     MoveLog(attacker, defender, move, effectiveness_text,
                             defender.HP - new_hp, new_hp))]

\* lines 426-454, from the new HP of the defender
Damaged(battle_state, opp_key, attacker, defender, move, effectiveness_text, new_hp) ==
  [state |-> [battle_state EXCEPT
                ![opp_key].pokemon[ActiveIndex(battle_state, opp_key) + 1].HP
                  = new_hp],
   result |-> Result("Used move",
                     IF effectiveness_text # "" THEN <<effectiveness_text>>
                     ELSE <<>>,
                     MoveLog(attacker, defender, move, effectiveness_text,
                             defender.HP - new_hp, new_hp))]

\* line 423: (min_damage + max_damage) // 2
Midpoint(dmg) == (dmg[1] + dmg[2]) \div 2

\* lines 418-454
UseMove(battle_state, opp_key, attacker, defender, move) ==
  Damaged(battle_state, opp_key, attacker, defender, move,
          EffectivenessText(
            calculate_type_effectiveness(move.type, types(defender))),
          ClampHP(defender.HP,
                  Midpoint(calculate_damage(move, attacker, defender,
                                            battle_state.weather))))

\* a faulty variant of lines 401-408: a fainted attacker is not stopped
MoveBy_FaintedAttacks(battle_state, action, opp_key, attacker, defender) ==
  IF defender.HP <= 0
  THEN [state |-> battle_state,
        result |-> Result("Invalid move", <<>>,
           << Msg("{} is already fainted", defender.name, "", 0) >>)]
  ELSE IF action.index >= Len(moves(attacker))
  THEN [state |-> battle_state, result |-> Raise("IndexError")]
  ELSE UseMove(battle_state, opp_key, attacker, defender,
               moves(attacker)[action.index + 1])

\* lines 401-418
MoveBy(battle_state, action, opp_key, attacker, defender) ==
  IF attacker.HP <= 0
  THEN [state |-> battle_state,
        result |-> Result("Invalid move", <<>>,
           << Msg("{} cannot move because it is fainted", attacker.name, "", 0) >>)]
  ELSE IF defender.HP <= 0
  THEN [state |-> battle_state,
        result |-> Result("Invalid move", <<>>,
           << Msg("{} is already fainted", defender.name, "", 0) >>)]
  ELSE IF action.index >= Len(moves(attacker))
  THEN [state |-> battle_state, result |-> Raise("IndexError")]
  ELSE UseMove(battle_state, opp_key, attacker, defender,
               moves(attacker)[action.index + 1])

apply_move(battle_state, action) ==
  MoveBy(battle_state, action, OppKey(action.user),
         Active(battle_state, TeamKey(action.user)),
         Active(battle_state, OppKey(action.user)))

----------------------------------------------------------------------------
(* The state of the program.                                               *)

VARIABLES
  heap,           \* the dict objects: heap[id] is the battle state of object id
  pc,             \* the statement control is at
  current_state,  \* calculate_battle_strategy: id of its current_state
  turns,          \* calculate_battle_strategy: the list turns
  battle_log,     \* calculate_battle_strategy: the list battle_log
  turn_number,    \* calculate_battle_strategy: turn_number
  frame,          \* the locals of the running simulate_turn
  turn_result,    \* the dict simulate_turn returned
  strategy,       \* what calculate_battle_strategy returned
  call,           \* a direct call of apply_switch or apply_move and its outcome
  search          \* a call of find_best_move and its outcome

vars == <<heap, pc, current_state, turns, battle_log, turn_number, frame,
          turn_result, strategy, call, search>>

\* main.py line 135: while turn_number <= 50
MaxTurns == 50

\* the largest number of combatants of a battle, both teams together
MaxCombatants == 3

\* the largest depth find_best_move is called with
MaxDepth == 2

----------------------------------------------------------------------------
(* copy.deepcopy(obj): a new object with the same value                    *)

\* a faulty variant: the same object instead of a copy of it
deepcopy_Alias(h, id) == [heap |-> h, ref |-> id]

deepcopy(h, id) == [heap |-> Append(h, h[id]), ref |-> Len(h) + 1]

----------------------------------------------------------------------------
(* The battles: every team of 1 or more combatants, each a species of Dex  *)
(* either at full HP or fainted, any active index inside the team.         *)

\* a pokemon dict as pydantic's .dict() makes it: the key current_hp is set
Combatant(name, HP) ==
  [name |-> name, HP |-> HP, keys |-> {"current_hp"}, current_hp |-> Some(HP)]

Combatants ==
  {Combatant(s, 0) : s \in Species} \cup
  {Combatant(s, Dex[s].fullHP) : s \in Species}

Weathers == {None, "Rain"}

Teams(combatants, n) ==
  {[pokemon |-> ps, active_pokemon_index |-> a] :
     ps \in [1..n -> combatants], a \in 0..(n - 1)}

\* the battles of the combatants, MaxCombatants of them at most
StatesOf(combatants, weathers) ==
  UNION {
    {[player_team |-> p, opponent_team |-> o, weather |-> w] :
       p \in Teams(combatants, np),
       o \in Teams(combatants, MaxCombatants - k - np), w \in weathers} :
    np \in 1..(MaxCombatants - 1), k \in 0..(MaxCombatants - 2)
  }

BattleStates == StatesOf(Combatants, Weathers)

NoFrame ==
  [battle_state |-> 0, current_state |-> 0, actions |-> <<>>, k |-> 0,
   turn_log |-> <<>>]

NoResult == [winner |-> None, log |-> <<>>, state |-> 0]

NoStrategy == [status |-> "running", turns |-> <<>>, winner |-> None,
               battle_log |-> <<>>]

\* BattleStrategy(turns=..., winner=..., battle_log=...)
BattleStrategy(ts, winner, log) ==
  [status |-> "return", turns |-> ts, winner |-> winner, battle_log |-> log]

\* raise HTTPException(status_code=500, ...)
HTTPException ==
  [status |-> "raise", turns |-> <<>>, winner |-> None, battle_log |-> <<>>]

\* no call of apply_switch, apply_move or find_best_move has been made
NoCall == [made |-> FALSE]

NoSearch == [made |-> FALSE]

\* main.py lines 128-133: current_state = battle_state.dict(), empty lists
Init ==
  /\ \E s \in BattleStates : heap = <<s>>
  /\ current_state = 1
  /\ turns = <<>>
  /\ battle_log = <<>>
  /\ turn_number = 1
  /\ pc = "loop"
  /\ frame = NoFrame
  /\ turn_result = NoResult
  /\ strategy = NoStrategy
  /\ call = NoCall
  /\ search = NoSearch

----------------------------------------------------------------------------
(* main.py: calculate_battle_strategy, lines 135-160 and 178-184: the      *)
(* while test, the defeat check before a turn, the call of simulate_turn.  *)

Return(s) ==
  /\ strategy' = s
  /\ pc' = "done"

\* a faulty variant of line 135: the loop admits a 51st turn
WithinTurnCap_OneMore(n) == n <= MaxTurns + 1

\* line 135: while turn_number <= 50
WithinTurnCap(n) == n <= MaxTurns

\* a faulty variant of lines 145-156: the opponent's defeat tested first
WinnerBeforeTurn_OpponentFirst(battle_state) ==
  IF ~Alive(battle_state, "opponent_team") THEN "player"
  ELSE IF ~Alive(battle_state, "player_team") THEN "opponent"
  ELSE None

\* lines 139-156: the winner the check before a turn returns, None to go on
WinnerBeforeTurn(battle_state) ==
  IF ~Alive(battle_state, "player_team") THEN "opponent"
  ELSE IF ~Alive(battle_state, "opponent_team") THEN "player"
  ELSE None

\* lines 145-160
BeforeTurn(winner) ==
  IF winner = "opponent"
  THEN Return(BattleStrategy(turns, "opponent",
         Append(battle_log,
                Msg("Player has no more usable Pokemon!", "", "", 0))))
  ELSE IF winner = "player"
  THEN Return(BattleStrategy(turns, "player",
         Append(battle_log,
                Msg("Opponent has no more usable Pokemon!", "", "", 0))))
  ELSE /\ pc' = "simulate_turn"
       /\ UNCHANGED strategy

LoopHead ==
  /\ pc = "loop"
  /\ IF WithinTurnCap(turn_number)
     THEN BeforeTurn(WinnerBeforeTurn(heap[current_state]))
     ELSE Return(BattleStrategy(turns, None,
            Append(battle_log,
                   Msg("Battle ended in a draw after 50 turns.", "", "", 0))))
  /\ UNCHANGED <<heap, current_state, turns, battle_log, turn_number, frame,
                 turn_result, call, search>>

(* main.py: simulate_turn, line 196: the deep copy; lines 200-230: the two *)
(* chosen actions and the list of actions, the switches first.             *)

\* a faulty variant of lines 218-228: the moves appended before the switches
OrderActions_MovesFirst(player_action, opponent_action) ==
  (IF player_action.action_type = "move" THEN <<player_action>> ELSE <<>>)
  \o (IF opponent_action.action_type = "move" THEN <<opponent_action>> ELSE <<>>)
  \o (IF player_action.action_type = "switch" THEN <<player_action>> ELSE <<>>)
  \o (IF opponent_action.action_type = "switch" THEN <<opponent_action>> ELSE <<>>)

\* lines 218-228
OrderActions(player_action, opponent_action) ==
  (IF player_action.action_type = "switch" THEN <<player_action>> ELSE <<>>)
  \o (IF opponent_action.action_type = "switch" THEN <<opponent_action>> ELSE <<>>)
  \o (IF player_action.action_type = "move" THEN <<player_action>> ELSE <<>>)
  \o (IF opponent_action.action_type = "move" THEN <<opponent_action>> ELSE <<>>)

\* a return of simulate_turn
TurnReturn(winner, log, state) ==
  /\ turn_result' = [winner |-> winner, log |-> log, state |-> state]
  /\ pc' = "returned"
  /\ UNCHANGED strategy

\* an exception, caught at line 186
Except ==
  /\ Return(HTTPException)
  /\ UNCHANGED turn_result

\* lines 200-230
Chosen(player_action, opponent_action) ==
  IF IsRaise(player_action)
  THEN Except /\ UNCHANGED frame
  ELSE IF player_action = NoAction
  THEN /\ TurnReturn("opponent",
            <<Msg("Player has no valid moves or switches!", "", "", 0)>>, 0)
       /\ UNCHANGED frame
  ELSE IF IsRaise(opponent_action)
  THEN Except /\ UNCHANGED frame
  ELSE IF opponent_action = NoAction
  THEN /\ TurnReturn("player",
            <<Msg("Opponent has no valid moves or switches!", "", "", 0)>>, 0)
       /\ UNCHANGED frame
  ELSE /\ frame' = [frame EXCEPT
                      !.actions = OrderActions(player_action, opponent_action)]
       /\ pc' = "execute"
       /\ UNCHANGED <<turn_result, strategy>>

SimulateTurnBegin ==
  /\ pc = "simulate_turn"
  /\ heap' = deepcopy(heap, current_state).heap
  /\ frame' = [battle_state |-> current_state,
               current_state |-> deepcopy(heap, current_state).ref,
               actions |-> <<>>, k |-> 0, turn_log |-> <<>>]
  /\ pc' = "choose"
  /\ UNCHANGED <<current_state, turns, battle_log, turn_number, turn_result,
                 strategy, call, search>>

ChooseActions ==
  /\ pc = "choose"
  /\ Chosen(determine_best_action(heap[frame.current_state], "player"),
            determine_best_action(heap[frame.current_state], "opponent"))
  /\ UNCHANGED <<heap, current_state, turns, battle_log, turn_number, call,
                 search>>

(* main.py: simulate_turn, lines 233-254: one iteration of the loop over   *)
(* the actions: apply the action, extend the log, check for a defeat.      *)

ApplyAction(battle_state, action) ==
  IF action.action_type = "move"
  THEN apply_move(battle_state, action)
  ELSE apply_switch(battle_state, action)

\* a faulty variant of lines 245-254: the defeated side named as the winner
DefeatCheck_WinnersSwapped(turn_log, battle_state) ==
  /\ frame' = [frame EXCEPT !.k = @ + 1, !.turn_log = turn_log]
  /\ IF ~Alive(battle_state, "player_team")
     THEN TurnReturn("player",
            Append(turn_log, Msg("Player has no more usable Pokemon!", "", "", 0)),
            0)
     ELSE IF ~Alive(battle_state, "opponent_team")
     THEN TurnReturn("opponent",
            Append(turn_log, Msg("Opponent has no more usable Pokemon!", "", "", 0)),
            0)
     ELSE /\ pc' = "execute"
          /\ UNCHANGED <<turn_result, strategy>>

\* lines 239-254
DefeatCheck(turn_log, battle_state) ==
  /\ frame' = [frame EXCEPT !.k = @ + 1, !.turn_log = turn_log]
  /\ IF ~Alive(battle_state, "player_team")
     THEN TurnReturn("opponent",
            Append(turn_log, Msg("Player has no more usable Pokemon!", "", "", 0)),
            0)
     ELSE IF ~Alive(battle_state, "opponent_team")
     THEN TurnReturn("player",
            Append(turn_log, Msg("Opponent has no more usable Pokemon!", "", "", 0)),
            0)
     ELSE /\ pc' = "execute"
          /\ UNCHANGED <<turn_result, strategy>>

Applied(applied) ==
  /\ heap' = [heap EXCEPT ![frame.current_state] = applied.state]
  /\ IF IsRaise(applied.result)
     THEN Except /\ UNCHANGED frame
     ELSE DefeatCheck(frame.turn_log \o applied.result.log, applied.state)

ExecuteAction ==
  /\ pc = "execute"
  /\ frame.k < Len(frame.actions)
  /\ Applied(ApplyAction(heap[frame.current_state], frame.actions[frame.k + 1]))
  /\ UNCHANGED <<current_state, turns, battle_log, turn_number, call, search>>

(* main.py: simulate_turn, lines 256-260: the return after the loop        *)

SimulateTurnReturn ==
  /\ pc = "execute"
  /\ frame.k = Len(frame.actions)
  /\ TurnReturn(None, frame.turn_log, frame.current_state)
  /\ UNCHANGED <<heap, current_state, turns, battle_log, turn_number, frame,
                 call, search>>

(* main.py: calculate_battle_strategy, lines 160-176: what the loop does   *)
(* with the dict simulate_turn returned.                                   *)

HandleTurnResult ==
  /\ pc = "returned"
  /\ battle_log' = battle_log \o turn_result.log
  /\ IF turn_result.winner # None
     THEN /\ Return(BattleStrategy(turns, turn_result.winner, battle_log'))
          /\ UNCHANGED <<current_state, turns, turn_number>>
     ELSE /\ current_state' = turn_result.state
          /\ turns' = Append(turns, turn_result)
          /\ turn_number' = turn_number + 1
          /\ pc' = "loop"
          /\ UNCHANGED strategy
  /\ UNCHANGED <<heap, frame, turn_result, call, search>>

Next ==
  \/ LoopHead
  \/ SimulateTurnBegin
  \/ ChooseActions
  \/ ExecuteAction
  \/ SimulateTurnReturn
  \/ HandleTurnResult

Spec == Init /\ [][Next]_vars

----------------------------------------------------------------------------
(* battle_logic.py: evaluate_position.  It writes the key current_hp into  *)
(* the pokemon dicts that lack it, so it returns                           *)
(* [state: the dict after the call, value, exc: the exception raised or    *)
(* "None"].                                                                *)

\* lines 101-102 and 108-109
WithCurrentHP(pokemon) ==
  IF "current_hp" \in pokemon.keys THEN pokemon
  ELSE [pokemon EXCEPT !.keys = @ \cup {"current_hp"},
                       !.current_hp = Some(pokemon.HP)]

\* lines 103-104 and 110-111: score += current_hp / max_hp
AddShare(acc, k, pokemon) ==
  [pokemon |-> [acc.pokemon EXCEPT ![k] = pokemon],
   score |-> IF pokemon.current_hp = NoInt \/ pokemon.HP = 0 THEN acc.score
             ELSE RAdd(acc.score, R(pokemon.current_hp[1], pokemon.HP)),
   exc |-> IF pokemon.current_hp = NoInt THEN "TypeError"
           ELSE IF pokemon.HP = 0 THEN "ZeroDivisionError"
           ELSE None]

\* one iteration of the loop of lines 99-104 or 106-111
ScoreNext(acc, k) ==
  IF acc.exc # None THEN acc
  ELSE AddShare(acc, k, WithCurrentHP(acc.pokemon[k]))

\* the loop over the first k pokemon of a team
RECURSIVE TeamScore(_, _)
TeamScore(team, k) ==
  IF k = 0 THEN [pokemon |-> team, score |-> RInt(0), exc |-> None]
  ELSE ScoreNext(TeamScore(team, k - 1), k)

\* lines 106-117
OpponentScored(battle_state, player_score, opponent) ==
  [state |-> [battle_state EXCEPT !.opponent_team.pokemon = opponent.pokemon],
   value |-> IF opponent.exc # None THEN RInt(0)
             ELSE RSub(RDiv(player_score,
                            RInt(TeamSize(battle_state, "player_team"))),
                       RDiv(opponent.score,
                            RInt(TeamSize(battle_state, "opponent_team")))),
   exc |-> opponent.exc]

\* lines 99-117
PlayerScored(battle_state, player) ==
  IF player.exc # None
  THEN [state |-> [battle_state EXCEPT !.player_team.pokemon = player.pokemon],
        value |-> RInt(0), exc |-> player.exc]
  ELSE OpponentScored(
         [battle_state EXCEPT !.player_team.pokemon = player.pokemon],
         player.score,
         TeamScore(battle_state.opponent_team.pokemon,
                   TeamSize(battle_state, "opponent_team")))

evaluate_position(battle_state) ==
  PlayerScored(battle_state,
               TeamScore(battle_state.player_team.pokemon,
                         TeamSize(battle_state, "player_team")))

----------------------------------------------------------------------------
(* battle_logic.py: simulate_move.  It returns                             *)
(* [heap: the objects after the call, ref: the id of the new state, exc].  *)

\* lines 195-196
InitCurrentHP(defender) ==
  IF "current_hp" \in defender.keys THEN defender
  ELSE [defender EXCEPT !.keys = @ \cup {"current_hp"},
                        !.current_hp = Some(defender.HP)]

\* lines 199 and 202
Struck(defender, hp) == [defender EXCEPT !.current_hp = Some(hp), !.HP = hp]

\* lines 194-204
Strike(copy, new_state, defender_team, defender, damage) ==
  IF defender.current_hp = NoInt
  THEN [heap |-> copy.heap, ref |-> copy.ref, exc |-> "TypeError"]
  ELSE [heap |-> [copy.heap EXCEPT ![copy.ref] =
                    [new_state EXCEPT
                       ![defender_team].pokemon[
                           ActiveIndex(new_state, defender_team) + 1] =
                         Struck(defender,
                                IF defender.current_hp[1] - damage > 0
                                THEN defender.current_hp[1] - damage ELSE 0)]],
        ref |-> copy.ref, exc |-> None]

\* lines 184-204
Simulate(copy, action, new_state, attacker, defender) ==
  IF action.index >= Len(moves(attacker))
  THEN [heap |-> copy.heap, ref |-> copy.ref, exc |-> "IndexError"]
  ELSE Strike(copy, new_state, OppKey(action.user), InitCurrentHP(defender),
              Midpoint(calculate_damage(moves(attacker)[action.index + 1],
                                        attacker, defender,
                                        new_state.weather)))

\* lines 180-204, on the copy made at line 178
Simulated(copy, action) ==
  IF action.action_type = "move"
  THEN Simulate(copy, action, copy.heap[copy.ref],
                Active(copy.heap[copy.ref], TeamKey(action.user)),
                Active(copy.heap[copy.ref], OppKey(action.user)))
  ELSE [heap |-> copy.heap, ref |-> copy.ref, exc |-> None]

\* a faulty variant of line 178: the state itself instead of a deep copy
CopyState_Same(h, battle_state) == [heap |-> h, ref |-> battle_state]

\* line 178: new_state = copy.deepcopy(battle_state)
CopyState(h, battle_state) == deepcopy(h, battle_state)

simulate_move(h, battle_state, action) ==
  Simulated(CopyState(h, battle_state), action)

----------------------------------------------------------------------------
(* battle_logic.py: find_best_move and its inner function minimax.         *)
(* minimax allocates objects, so it takes and returns the heap; `calls`    *)
(* lists the calls of simulate_move: the state passed, its value at the    *)
(* call, the state returned and, when minimax went on to evaluate the      *)
(* state returned at line 123, what evaluate_position gave for it.         *)
(* minimax returns [heap, calls, value, action, exc].                      *)

\* the value of a state passed to simulate_move, and the state returned
SimulateCall(state, snapshot, new_state) ==
  [from |-> state, snapshot |-> snapshot, to |-> new_state, evaluated |-> << >>]

\* line 123 reached for the state the latest call of simulate_move returned
LeafEvaluated(calls, evaluated) ==
  IF calls = << >> THEN calls
  ELSE [calls EXCEPT ![Len(calls)].evaluated =
          << [value |-> evaluated.value, exc |-> evaluated.exc] >>]

Mover(is_maximizing) == IF is_maximizing THEN "player" ELSE "opponent"

\* line 123
Leaf(h, calls, evaluated, state) ==
  [heap |-> [h EXCEPT ![state] = evaluated.state],
   calls |-> LeafEvaluated(calls, evaluated),
   value |-> evaluated.value, action |-> NoAction, exc |-> evaluated.exc]

RECURSIVE minimax(_, _, _, _, _, _, _)
RECURSIVE MoveLoop(_, _, _, _, _, _, _, _, _, _)

\* a faulty variant of lines 142-143 and 160-161: the action found so far
\* is not returned when the loop is left at the cutoff
Pruned_ActionDropped(h, calls, state, depth, alpha, beta, is_maximizing, i, best_eval, best_action) ==
  IF RLe(beta, alpha)
  THEN [heap |-> h, calls |-> calls, value |-> best_eval, action |-> NoAction,
        exc |-> None]
  ELSE MoveLoop(h, calls, state, depth, alpha, beta, is_maximizing, i + 1,
                best_eval, best_action)

\* lines 139-143 and 157-161: the cutoff or the next move
Pruned(h, calls, state, depth, alpha, beta, is_maximizing, i, best_eval, best_action) ==
  IF RLe(beta, alpha)
  THEN [heap |-> h, calls |-> calls, value |-> best_eval, action |-> best_action,
        exc |-> None]
  ELSE MoveLoop(h, calls, state, depth, alpha, beta, is_maximizing, i + 1,
                best_eval, best_action)

\* a faulty variant of lines 135-139: the action kept for the maximizing
\* side names the opponent
Explored_OpponentNamed(r, state, depth, alpha, beta, is_maximizing, i, best_eval, best_action) ==
  IF r.exc # None THEN r
  ELSE IF is_maximizing
  THEN Pruned(r.heap, r.calls, state, depth, RMax(alpha, r.value), beta,
              is_maximizing, i,
              IF RLt(best_eval, r.value) THEN r.value ELSE best_eval,
              IF RLt(best_eval, r.value)
              THEN BattleAction("move", "opponent", i) ELSE best_action)
  ELSE Pruned(r.heap, r.calls, state, depth, alpha, RMin(beta, r.value),
              is_maximizing, i,
              IF RLt(r.value, best_eval) THEN r.value ELSE best_eval,
              IF RLt(r.value, best_eval)
              THEN BattleAction("move", "opponent", i) ELSE best_action)

\* lines 135-139 and 153-157
Explored(r, state, depth, alpha, beta, is_maximizing, i, best_eval, best_action) ==
  IF r.exc # None THEN r
  ELSE IF is_maximizing
  THEN Pruned(r.heap, r.calls, state, depth, RMax(alpha, r.value), beta,
              is_maximizing, i,
              IF RLt(best_eval, r.value) THEN r.value ELSE best_eval,
              IF RLt(best_eval, r.value)
              THEN BattleAction("move", "player", i) ELSE best_action)
  ELSE Pruned(r.heap, r.calls, state, depth, alpha, RMin(beta, r.value),
              is_maximizing, i,
              IF RLt(r.value, best_eval) THEN r.value ELSE best_eval,
              IF RLt(r.value, best_eval)
              THEN BattleAction("move", "opponent", i) ELSE best_action)

\* lines 132-133 and 150-151
Child(simulated, calls, state, snapshot, depth, alpha, beta, is_maximizing, i, best_eval, best_action) ==
  IF simulated.exc # None
  THEN [heap |-> simulated.heap,
        calls |-> Append(calls, SimulateCall(state, snapshot, simulated.ref)),
        value |-> best_eval, action |-> NoAction, exc |-> simulated.exc]
  ELSE Explored(minimax(simulated.heap,
                        Append(calls,
                               SimulateCall(state, snapshot, simulated.ref)),
                        simulated.ref, depth - 1, alpha, beta, ~is_maximizing),
                state, depth, alpha, beta, is_maximizing, i, best_eval,
                best_action)

\* lines 130-143 and 148-161: the loop from move i on
MoveLoop(h, calls, state, depth, alpha, beta, is_maximizing, i, best_eval, best_action) ==
  IF i >= Len(moves(Active(h[state], TeamKey(Mover(is_maximizing)))))
  THEN [heap |-> h, calls |-> calls, value |-> best_eval, action |-> best_action,
        exc |-> None]
  ELSE Child(simulate_move(h, state,
                           BattleAction("move", Mover(is_maximizing), i)),
             calls, state, h[state], depth, alpha, beta, is_maximizing, i,
             best_eval, best_action)

\* lines 121-161
minimax(h, calls, state, depth, alpha, beta, is_maximizing) ==
  IF depth = 0
  THEN Leaf(h, calls, evaluate_position(h[state]), state)
  ELSE MoveLoop(h, calls, state, depth, alpha, beta, is_maximizing, 0,
                IF is_maximizing THEN NegInf ELSE PosInf, NoAction)

----------------------------------------------------------------------------
(* One call of find_best_move(battle_state, depth), a step for each        *)
(* iteration of its loop.  The caller's battle_state is object 1.          *)

\* the pokemon dicts a caller may pass: without the key current_hp, with
\* current_hp None as pydantic's default leaves it, or with current_hp set
SearchCombatant(name, HP, current_hp) ==
  [name |-> name, HP |-> HP,
   keys |-> IF current_hp = "absent" THEN {} ELSE {"current_hp"},
   current_hp |-> IF current_hp = "int" THEN Some(HP) ELSE NoInt]

\* with current_hp set, also a combatant at full HP that knows no move
SearchCombatants(current_hp) ==
  {SearchCombatant(s, 0, current_hp) : s \in Species} \cup
  {SearchCombatant(s, Dex[s].fullHP, current_hp) : s \in Species} \cup
  (IF current_hp = "int"
   THEN {SearchCombatant(s, Dex[s].fullHP, current_hp) : s \in Moveless}
   ELSE {})

SearchStates ==
  UNION {StatesOf(SearchCombatants(current_hp), {None}) :
           current_hp \in {"absent", "None", "int"}}

InitSearch ==
  /\ \E s \in SearchStates : heap = <<s>>
  /\ \E depth \in 0..MaxDepth : search = [made |-> FALSE, depth |-> depth]
  /\ pc = "find_best_move"
  /\ call = NoCall
  /\ current_state = 1
  /\ turns = <<>>
  /\ battle_log = <<>>
  /\ turn_number = 1
  /\ frame = NoFrame
  /\ turn_result = NoResult
  /\ strategy = NoStrategy

\* lines 164-165: best_moves = [], current_state = battle_state.copy().
\* roots and values list, for every call of minimax at line 168 that
\* returned, the state it was started on and the value it returned;
\* minimaxed lists the outcome of every call of minimax at line 168.
\* The copy is shallow: a new top-level dict whose team dicts and pokemon
\* dicts are the caller's own objects.  The program assigns only keys of
\* pokemon dicts, so the copy is the same object as far as writes go.
FindBestMoveBegin ==
  /\ pc = "find_best_move"
  /\ search' = [made |-> TRUE, depth |-> search.depth, battle_state |-> 1,
                input |-> heap[1], current_state |-> 1, best_moves |-> <<>>,
                iteration |-> 0, calls |-> <<>>, exc |-> None,
                roots |-> <<>>, values |-> <<>>, minimaxed |-> <<>>]
  /\ pc' = "search_loop"
  /\ UNCHANGED <<heap, current_state, turns, battle_log, turn_number, frame,
                 turn_result, strategy, call>>

\* line 168: the call minimax(current_state, depth, -inf, inf, True) and
\* what came of it
Minimaxed(r) ==
  [root |-> search.current_state, value |-> r.value, action |-> r.action,
   exc |-> r.exc]

\* line 171: current_state = simulate_move(current_state, best_action)
Advanced(r, simulated) ==
  /\ heap' = simulated.heap
  /\ search' = [search EXCEPT
                  !.calls = Append(r.calls,
                                   SimulateCall(search.current_state,
                                                r.heap[search.current_state],
                                                simulated.ref)),
                  !.best_moves = Append(@, r.action),
                  !.roots = Append(@, search.current_state),
                  !.values = Append(@, r.value),
                  !.minimaxed = Append(@, Minimaxed(r)),
                  !.current_state = simulated.ref,
                  !.iteration = @ + 1,
                  !.exc = simulated.exc]
  /\ pc' = IF simulated.exc # None THEN "search_raised" ELSE "search_loop"

\* lines 168-171
Iterated(r) ==
  IF r.exc # None
  THEN /\ heap' = r.heap
       /\ search' = [search EXCEPT !.calls = r.calls, !.exc = r.exc,
                                   !.minimaxed = Append(@, Minimaxed(r))]
       /\ pc' = "search_raised"
  ELSE IF r.action = NoAction
  THEN /\ heap' = r.heap
       /\ search' = [search EXCEPT !.calls = r.calls, !.iteration = @ + 1,
                                   !.roots = Append(@, search.current_state),
                                   !.values = Append(@, r.value),
                                   !.minimaxed = Append(@, Minimaxed(r))]
       /\ pc' = "search_loop"
  ELSE Advanced(r, simulate_move(r.heap, search.current_state, r.action))

\* lines 167-171: one iteration of for _ in range(depth)
SearchIterate ==
  /\ pc = "search_loop"
  /\ search.iteration < search.depth
  /\ Iterated(minimax(heap, search.calls, search.current_state, search.depth,
                      NegInf, PosInf, TRUE))
  /\ UNCHANGED <<current_state, turns, battle_log, turn_number, frame,
                 turn_result, strategy, call>>

\* line 173: return best_moves
SearchReturn ==
  /\ pc = "search_loop"
  /\ search.iteration = search.depth
  /\ pc' = "search_done"
  /\ UNCHANGED <<heap, current_state, turns, battle_log, turn_number, frame,
                 turn_result, strategy, call, search>>

NextSearch == FindBestMoveBegin \/ SearchIterate \/ SearchReturn

SpecSearch == InitSearch /\ [][NextSearch]_vars

----------------------------------------------------------------------------
(* One call of apply_switch or apply_move on a battle state, with any user *)
(* and any index up to one past the end of the list it indexes.            *)

Users == {"player", "opponent"}

InitOps ==
  /\ \E s \in BattleStates : heap = <<s>>
  /\ pc = "apply"
  /\ call = NoCall
  /\ current_state = 1
  /\ turns = <<>>
  /\ battle_log = <<>>
  /\ turn_number = 1
  /\ frame = NoFrame
  /\ turn_result = NoResult
  /\ strategy = NoStrategy
  /\ search = NoSearch

\* the call fn(battle_state, action) on object 1: the function writes into
\* the dict it is given
Called(fn, action, applied) ==
  /\ heap' = [heap EXCEPT ![1] = applied.state]
  /\ call' = [made |-> TRUE, fn |-> fn, action |-> action, before |-> heap[1],
              result |-> applied.result]
  /\ pc' = "applied"
  /\ UNCHANGED <<current_state, turns, battle_log, turn_number, frame,
                 turn_result, strategy, search>>

CallApplySwitch ==
  /\ pc = "apply"
  /\ \E user \in Users : \E index \in 0..TeamSize(heap[1], TeamKey(user)) :
       Called("apply_switch", BattleAction("switch", user, index),
              apply_switch(heap[1], BattleAction("switch", user, index)))

CallApplyMove ==
  /\ pc = "apply"
  /\ \E user \in Users :
       \E index \in 0..Len(moves(Active(heap[1], TeamKey(user)))) :
         Called("apply_move", BattleAction("move", user, index),
                apply_move(heap[1], BattleAction("move", user, index)))

NextOps == CallApplySwitch \/ CallApplyMove

SpecOps == InitOps /\ [][NextOps]_vars

----------------------------------------------------------------------------
(* One call of determine_best_action(battle_state, user).  What the        *)
(* function reads is the team of user and the active combatant of the      *)
(* other team: the team of one side has up to MaxTeam combatants, the      *)
(* other side has one.  A combatant may know no move.                      *)

\* the largest team determine_best_action is called for
MaxTeam == 3

\* the combatants of the larger team: any species at full HP, or fainted.
\* The function looks at no key but stats["HP"] of a fainted combatant of
\* the team it chooses for, so one fainted species stands for all.
OwnCombatants ==
  {Combatant(s, Dex[s].fullHP) : s \in DOMAIN Dex} \cup {Combatant("Rattata", 0)}

\* the combatant of the other team: any species, at full HP or fainted
FoeCombatants ==
  {Combatant(s, Dex[s].fullHP) : s \in DOMAIN Dex} \cup
  {Combatant(s, 0) : s \in DOMAIN Dex}

\* the state in which the team of the side big is own and the other team foe
SelectState(big, own, foe, weather) ==
  [player_team |-> IF big = "player" THEN own ELSE foe,
   opponent_team |-> IF big = "player" THEN foe ELSE own,
   weather |-> weather]

InitSelect ==
  /\ \E big \in Users, n \in 1..MaxTeam, w \in Weathers :
       \E own \in Teams(OwnCombatants, n), foe \in Teams(FoeCombatants, 1) :
         heap = << SelectState(big, own, foe, w) >>
  /\ pc = "select"
  /\ call = NoCall
  /\ current_state = 1
  /\ turns = <<>>
  /\ battle_log = <<>>
  /\ turn_number = 1
  /\ frame = NoFrame
  /\ turn_result = NoResult
  /\ strategy = NoStrategy
  /\ search = NoSearch

\* the call determine_best_action(battle_state, user) on object 1 and what
\* it returned or raised; the function writes nothing
Selected(user, action) ==
  /\ call' = [made |-> TRUE, fn |-> "determine_best_action", user |-> user,
              before |-> heap[1], result |-> action]
  /\ pc' = "selected"
  /\ UNCHANGED <<heap, current_state, turns, battle_log, turn_number, frame,
                 turn_result, strategy, search>>

CallDetermineBestAction ==
  /\ pc = "select"
  /\ \E user \in Users : Selected(user, determine_best_action(heap[1], user))

NextSelect == CallDetermineBestAction

SpecSelect == InitSelect /\ [][NextSelect]_vars

----------------------------------------------------------------------------
(* One call of battle_logic.calculate_damage(move, attacker, defender,     *)
(* weather): a move of any type and category, without power or with one,   *)
(* two combatants of Dex with stat stages, any weather.                    *)

\* main.py line 75: stat_stages: Dict[str, int], stages from -6 to +6
MaxStage == 6

\* the stages a stat is drawn with: the lowest, none, the highest
Stages == {-MaxStage, 0, MaxStage}

\* pokemon["stat_stages"]: the stage of each stat but HP
StatStages(atk, def, spa, spd, spe) == Stats(atk, def, spa, spd, spe)

\* a combatant at full HP with its attacking stats at stage atk and its
\* defending stats at stage def
Staged(name, atk, def) ==
  [name |-> name, HP |-> Dex[name].fullHP, keys |-> {"current_hp"},
   current_hp |-> Some(Dex[name].fullHP),
   stat_stages |-> StatStages(atk, def, atk, def, 0)]

\* main.py line 61: category: str  # Physical, Special, or Status
Categories == {"Physical", "Special", "Status"}

\* main.py line 58: power: Optional[int]
Powers == {NoInt, Some(0), Some(40), Some(150)}

\* the weather argument: None or a weather, of which two change the damage
DamageWeathers == {None, "Sun", "Rain"}

\* the arguments of a call of calculate_damage that has not been made
DamageCall(move, attacker, defender, weather) ==
  [made |-> FALSE, fn |-> "calculate_damage", move |-> move,
   attacker |-> attacker, defender |-> defender, weather |-> weather,
   result |-> <<>>]

InitDamage ==
  /\ \E type \in Type, category \in Categories, power \in Powers :
       \E a \in DOMAIN Dex, d \in DOMAIN Dex, sa \in Stages, sd \in Stages :
         \E weather \in DamageWeathers :
           call = DamageCall(Move("move", type, category, power, 0),
                             Staged(a, sa, 0), Staged(d, 0, sd), weather)
  /\ pc = "damage"
  /\ heap = <<>>
  /\ current_state = 0
  /\ turns = <<>>
  /\ battle_log = <<>>
  /\ turn_number = 1
  /\ frame = NoFrame
  /\ turn_result = NoResult
  /\ strategy = NoStrategy
  /\ search = NoSearch

\* the call and the tuple it returned; the function writes nothing
CallCalculateDamage ==
  /\ pc = "damage"
  /\ call' = [call EXCEPT
               !.made = TRUE,
               !.result = calculate_damage(call.move, call.attacker,
                                           call.defender, call.weather)]
  /\ pc' = "damaged"
  /\ UNCHANGED <<heap, current_state, turns, battle_log, turn_number, frame,
                 turn_result, strategy, search>>

NextDamage == CallCalculateDamage

SpecDamage == InitDamage /\ [][NextDamage]_vars

----------------------------------------------------------------------------
(* One call of calculate_type_effectiveness(move_type, defender_types):    *)
(* any type of main.py's Type against any list of one or two of them.      *)

\* main.py line 67: types: List[Type], here the lists of one or two types
DefenderTypes ==
  {<<a>> : a \in Type} \cup {<<a, b>> : a \in Type, b \in Type}

InitTypes ==
  /\ \E move_type \in Type, defender_types \in DefenderTypes :
       call = [made |-> FALSE, fn |-> "calculate_type_effectiveness",
               move_type |-> move_type, defender_types |-> defender_types,
               result |-> <<>>]
  /\ pc = "effectiveness"
  /\ heap = <<>>
  /\ current_state = 0
  /\ turns = <<>>
  /\ battle_log = <<>>
  /\ turn_number = 1
  /\ frame = NoFrame
  /\ turn_result = NoResult
  /\ strategy = NoStrategy
  /\ search = NoSearch

\* the call and the float it returned; the function writes nothing
CallCalculateTypeEffectiveness ==
  /\ pc = "effectiveness"
  /\ call' = [call EXCEPT
               !.made = TRUE,
               !.result = calculate_type_effectiveness(call.move_type,
                                                       call.defender_types)]
  /\ pc' = "computed"
  /\ UNCHANGED <<heap, current_state, turns, battle_log, turn_number, frame,
                 turn_result, strategy, search>>

NextTypes == CallCalculateTypeEffectiveness

SpecTypes == InitTypes /\ [][NextTypes]_vars

----------------------------------------------------------------------------
(* One call of evaluate_move(move, battle_state, user) or of               *)
(* evaluate_switches(battle_state, user), in a battle that may be under    *)
(* way: stats["HP"] of a combatant is anything from 0 to its full HP.      *)
(* The functions read the team of user and the active combatant of the     *)
(* other team: the player has up to MaxEvalTeam combatants, the opponent   *)
(* has one, and the call is made for either of them.                       *)

\* the largest team the two functions are called for
MaxEvalTeam == 2

\* stats["HP"] of a combatant of a species: fainted, nearly fainted, below
\* 30% of its full HP, at full HP
HPLevels(s) == {0, 1, Dex[s].fullHP \div 4, Dex[s].fullHP}

\* the combatants of the team the call is made for
EvalOwnCombatants ==
  UNION {{Combatant(s, hp) : hp \in HPLevels(s) \ {1}} : s \in DOMAIN Dex}

\* the combatant of the other team
EvalFoeCombatants ==
  UNION {{Combatant(s, hp) : hp \in HPLevels(s)} : s \in DOMAIN Dex}

InitEvaluate ==
  /\ \E n \in 1..MaxEvalTeam, w \in Weathers :
       \E own \in Teams(EvalOwnCombatants, n), foe \in Teams(EvalFoeCombatants, 1) :
         heap = << SelectState("player", own, foe, w) >>
  /\ pc = "evaluate"
  /\ call = NoCall
  /\ current_state = 1
  /\ turns = <<>>
  /\ battle_log = <<>>
  /\ turn_number = 1
  /\ frame = NoFrame
  /\ turn_result = NoResult
  /\ strategy = NoStrategy
  /\ search = NoSearch

\* the call of fn on object 1 for user, with the move of that index of the
\* user's active combatant if fn takes a move, and the float it returned;
\* the two functions write nothing
Evaluated(fn, user, index, score) ==
  /\ call' = [made |-> TRUE, fn |-> fn, user |-> user, index |-> index,
              before |-> heap[1], result |-> score]
  /\ pc' = "evaluated"
  /\ UNCHANGED <<heap, current_state, turns, battle_log, turn_number, frame,
                 turn_result, strategy, search>>

CallEvaluateMove ==
  /\ pc = "evaluate"
  /\ \E user \in Users :
       \E i \in 1..Len(moves(Active(heap[1], TeamKey(user)))) :
         Evaluated("evaluate_move", user, i - 1,
                   evaluate_move(moves(Active(heap[1], TeamKey(user)))[i],
                                 heap[1], user))

CallEvaluateSwitches ==
  /\ pc = "evaluate"
  /\ \E user \in Users :
       Evaluated("evaluate_switches", user, 0, evaluate_switches(heap[1], user))

NextEvaluate == CallEvaluateMove \/ CallEvaluateSwitches

SpecEvaluate == InitEvaluate /\ [][NextEvaluate]_vars

----------------------------------------------------------------------------
(* Properties of a battle run by calculate_battle_strategy.                *)

\* a side of the battle state of object id has no combatant with HP > 0
Defeated(id) ==
  ~Alive(heap[id], "player_team") \/ ~Alive(heap[id], "opponent_team")

\* the object holding the latest battle state: the working copy of the turn
\* that ran last, or the initial state when no turn has run
LatestState == IF frame = NoFrame THEN current_state ELSE frame.current_state

\* what holds of every state of a battle: the number of resolved turns
\* never exceeds 50; no action is chosen or applied once a side is defeated
\* (a state with a defeated side is met only at the check before the first
\* turn or when simulate_turn has returned a winner); the call returns
\* normally, with a winner whose opponent is defeated, or with no winner
\* exactly when 50 turns have been resolved
TurnsBounded ==
  /\ Len(turns) <= MaxTurns
  /\ turn_number = Len(turns) + 1
  /\ frame.k <= Len(frame.actions) /\ Len(frame.actions) <= 2
  /\ pc \in {"simulate_turn", "choose", "execute"} => ~Defeated(LatestState)
  /\ pc = "loop" /\ Defeated(current_state) => turn_number = 1
  /\ pc = "returned" /\ Defeated(frame.current_state)
       => turn_result.winner # None
  /\ pc = "done" =>
       /\ strategy.status = "return"
       /\ strategy.turns = turns
       /\ strategy.winner = None <=> Len(turns) = MaxTurns
       /\ strategy.winner = "player"
            => ~Alive(heap[LatestState], "opponent_team")
       /\ strategy.winner = "opponent"
            => ~Alive(heap[LatestState], "player_team")

\* a bound on the number of steps to the return of the call: the turns that
\* may still be resolved, and within the running turn the statements and
\* actions still to come
StepsLeft ==
  (MaxTurns + 1 - Len(turns)) * 8
  + (CASE pc = "loop" -> 7
       [] pc = "simulate_turn" -> 6
       [] pc = "choose" -> 5
       [] pc = "execute" -> 4 - frame.k
       [] pc = "returned" -> 1
       [] pc = "done" -> 0)

\* C1: calculate_battle_strategy resolves at most 50 turns and then returns:
\* it returns a winner as soon as a side has no non-fainted combatant, and a
\* draw (winner none) when 50 turns have been resolved without a winner.
\* Every step of the call brings the return nearer, so the call cannot run
\* for ever, and the states it passes through satisfy TurnsBounded.
C1_AtMost50TurnsThenReturns == []TurnsBounded /\ [][StepsLeft' < StepsLeft]_vars

\* a battle that ends in a draw after 50 resolved turns
C1_DrawAfter50Turns ==
  /\ pc = "done"
  /\ strategy.winner = None
  /\ Len(strategy.turns) = MaxTurns
\* the object simulate_turn works on, and the action its loop applies next
Working == frame.current_state

NextAction == frame.actions[frame.k + 1]

Applying == pc = "execute" /\ frame.k < Len(frame.actions)

\* the move an attack uses, the damage apply_move computes for it and the HP
\* of its target, in a battle state
MoveOf(battle_state, action) ==
  moves(Active(battle_state, TeamKey(action.user)))[action.index + 1]

DamageOf(battle_state, action) ==
  Midpoint(calculate_damage(MoveOf(battle_state, action),
                            Active(battle_state, TeamKey(action.user)),
                            Active(battle_state, OppKey(action.user)),
                            battle_state.weather))

TargetHP(battle_state, action) == Active(battle_state, OppKey(action.user)).HP

\* an attack of a non-fainted combatant on a non-fainted combatant
LegalMove(battle_state, action) ==
  /\ action.action_type = "move"
  /\ Active(battle_state, TeamKey(action.user)).HP > 0
  /\ TargetHP(battle_state, action) > 0

TeamKeys == {"player_team", "opponent_team"}

\* in every battle state held by the program, every combatant's HP is
\* between 0 and its HP in the initial state
HPInRange ==
  \A id \in 1..Len(heap) : \A team_key \in TeamKeys :
    \A i \in 0..(TeamSize(heap[id], team_key) - 1) :
      /\ 0 <= Pokemon(heap[id], team_key, i).HP
      /\ Pokemon(heap[id], team_key, i).HP <= Pokemon(heap[1], team_key, i).HP

\* an attack whose damage is at least the target's HP leaves it at 0
OverkillLeavesZero ==
  Applying /\ LegalMove(heap[Working], NextAction)
           /\ DamageOf(heap[Working], NextAction)
                 >= TargetHP(heap[Working], NextAction)
    => TargetHP(heap'[Working], NextAction) = 0

\* C2: in every state reachable through apply_move, simulate_turn and
\* calculate_battle_strategy each combatant's HP satisfies
\* 0 <= HP <= its HP at battle start, and an attack whose damage exceeds the
\* target's remaining HP leaves the target at exactly 0, never below.
C2_HPBetweenZeroAndStart == []HPInRange /\ [][OverkillLeavesZero]_vars

\* the first attack of a turn has done more damage than its target had HP
\* left at the start of the turn, and the target is at 0
C2_OverkillApplied ==
  /\ pc \in {"execute", "returned"}
  /\ frame.k = 1
  /\ LegalMove(heap[frame.battle_state], frame.actions[1])
  /\ DamageOf(heap[frame.battle_state], frame.actions[1])
       > TargetHP(heap[frame.battle_state], frame.actions[1])
  /\ TargetHP(heap[Working], frame.actions[1]) = 0

\* the state simulate_turn was given and the state it works on
Given == heap[frame.battle_state]

Priority(battle_state, action) == MoveOf(battle_state, action).priority

Speed(battle_state, action) ==
  stats(Active(battle_state, TeamKey(action.user)), "Speed")

\* the attack a comes before the attack b by priority, then Speed
Outranks(battle_state, a, b) ==
  \/ Priority(battle_state, a) > Priority(battle_state, b)
  \/ /\ Priority(battle_state, a) = Priority(battle_state, b)
     /\ Speed(battle_state, a) > Speed(battle_state, b)

\* C3: in a turn in which both sides attack, the attack with the higher move
\* priority executes first; with equal priorities the attack of the
\* combatant with the higher Speed executes first; the player-before-
\* opponent order is used only when priority and Speed are both equal.
C3_AttackOrderByPriorityThenSpeed ==
  /\ pc = "execute" /\ frame.k = 0 /\ Len(frame.actions) = 2
  /\ frame.actions[1].action_type = "move"
  /\ frame.actions[2].action_type = "move"
  => \/ Outranks(Given, frame.actions[1], frame.actions[2])
     \/ /\ ~Outranks(Given, frame.actions[2], frame.actions[1])
        /\ frame.actions[1].user = "player"

\* the actions of the turn are a switch of one side and an attack of the other
SwitchAndAttack ==
  /\ Len(frame.actions) = 2
  /\ \E i \in 1..2 : frame.actions[i].action_type = "switch"
  /\ \E i \in 1..2 : frame.actions[i].action_type = "move"

\* the state after the switch sw alone
Switched(battle_state, sw) ==
  [battle_state EXCEPT ![TeamKey(sw.user)].active_pokemon_index = sw.index]

Max0(n) == IF n > 0 THEN n ELSE 0

\* after the switch sw and the attack mv of a turn: the incoming combatant
\* is active and has taken the damage of the attack on it, every other
\* combatant of its team has the HP it had before the turn
DamageOnIncoming(before, after, sw, mv) ==
  /\ sw.action_type = "switch" /\ mv.action_type = "move"
  /\ ActiveIndex(after, TeamKey(sw.user)) = sw.index
  /\ \A i \in 0..(TeamSize(before, TeamKey(sw.user)) - 1) :
       Pokemon(after, TeamKey(sw.user), i).HP =
         IF i = sw.index
         THEN Max0(Pokemon(before, TeamKey(sw.user), i).HP
                   - DamageOf(Switched(before, sw), mv))
         ELSE Pokemon(before, TeamKey(sw.user), i).HP

\* C4: in every turn in which one side switches and the other attacks, the
\* switch is applied before the attack: the attack's damage lands on the
\* incoming combatant and the withdrawn combatant's HP is unchanged by that
\* turn, also when the switch is forced by a faint in the previous turn.
C4_SwitchBeforeAttack ==
  /\ SwitchAndAttack => frame.actions[1].action_type = "switch"
  /\ SwitchAndAttack /\ frame.k = 2
       => DamageOnIncoming(Given, heap[Working], frame.actions[1],
                           frame.actions[2])

\* after a first turn, a forced switch and an attack have been applied: the
\* withdrawn combatant was at HP 0 before the turn, the incoming one has
\* lost HP
C4_ForcedSwitchThenAttack ==
  /\ SwitchAndAttack /\ frame.k = 2
  /\ Len(turns) >= 1
  /\ Active(Given, TeamKey(frame.actions[1].user)).HP = 0
  /\ ActiveIndex(heap[Working], TeamKey(frame.actions[1].user))
       # ActiveIndex(Given, TeamKey(frame.actions[1].user))
  /\ Active(heap[Working], TeamKey(frame.actions[1].user)).HP
       < Pokemon(Given, TeamKey(frame.actions[1].user),
                 frame.actions[1].index).HP

\* both teams of the battle state of object id are without a combatant of
\* HP > 0
BothDefeated(id) ==
  ~Alive(heap[id], "player_team") /\ ~Alive(heap[id], "opponent_team")

\* C5 as stated: if at a defeat check of the orchestrator both teams have
\* zero non-fainted combatants, the outcome is player-wins.
C5_PlayerWinsTies ==
  pc = "done" /\ BothDefeated(LatestState) => strategy.winner = "player"

\* C5: if at the defeat check before a turn both teams have zero non-fainted
\* combatants, the outcome is opponent-wins, the player's defeat being
\* checked first; this is the case of the initial state only, no turn is
\* resolved, and no state after an action of simulate_turn has both teams
\* defeated.
C5_OpponentWinsTies ==
  /\ \A id \in 1..Len(heap) : BothDefeated(id) => Len(heap) = 1
  /\ BothDefeated(LatestState) =>
       \/ pc = "loop" /\ turn_number = 1
       \/ /\ pc = "done"
          /\ strategy.status = "return"
          /\ strategy.winner = "opponent"
          /\ strategy.turns = <<>>

\* the battle of two defeated teams has returned
C5_TieReturned == pc = "done" /\ BothDefeated(1)

Other(user) == IF user = "player" THEN "opponent" ELSE "player"

\* the team of user starts as a single combatant at HP 0 and the other team
\* has a non-fainted combatant
SoleCombatantFainted(user) ==
  /\ TeamSize(heap[1], TeamKey(user)) = 1
  /\ Pokemon(heap[1], TeamKey(user), 0).HP = 0
  /\ Alive(heap[1], OppKey(user))

\* C6: if one team's sole combatant starts at HP 0 while the other team has
\* a non-fainted combatant, determine_best_action returns none for the
\* defeated side, and calculate_battle_strategy returns the opposing side as
\* winner immediately, with no turn resolved and an empty turn list.
C6_SoleFaintedLosesAtOnce ==
  \A user \in {"player", "opponent"} :
    SoleCombatantFainted(user) =>
      /\ determine_best_action(heap[1], user) = NoAction
      /\ pc \in {"loop", "done"}
      /\ Len(heap) = 1 /\ frame = NoFrame /\ turns = <<>>
      /\ pc = "done" =>
           /\ strategy.status = "return"
           /\ strategy.winner = Other(user)
           /\ strategy.turns = <<>>

\* the battle against a sole combatant of HP 0 has returned
C6_ReturnedAtOnce ==
  /\ pc = "done"
  /\ SoleCombatantFainted("opponent")
  /\ strategy.winner = "player"

\* the active combatant of a team that has a non-fainted combatant is
\* non-fainted
ActiveUsable(battle_state, team_key) ==
  Alive(battle_state, team_key) => Active(battle_state, team_key).HP > 0

ActivesUsable(battle_state) ==
  \A team_key \in TeamKeys : ActiveUsable(battle_state, team_key)

\* C7 as stated: starting from a state where each team's active index refers
\* to a non-fainted combatant, in every state reachable in a battle (after
\* every action and between turns) each team's active_pokemon_index refers
\* to a non-fainted combatant whenever that team has one.
C7_ActiveAlwaysUsable ==
  /\ Active(heap[1], "player_team").HP > 0
  /\ Active(heap[1], "opponent_team").HP > 0
  => ActivesUsable(heap[LatestState])

\* the switches of the running turn have all been applied and none of its
\* attacks has
SwitchesApplied ==
  /\ pc = "execute"
  /\ \A i \in 1..frame.k : frame.actions[i].action_type = "switch"
  /\ \A i \in (frame.k + 1)..Len(frame.actions) :
       frame.actions[i].action_type = "move"

\* C7: in every turn of a battle run by calculate_battle_strategy, once the
\* switches of the turn have been applied and before its attacks are, each
\* team's active_pokemon_index refers to a non-fainted combatant; a
\* combatant that faints stays the active one until the forced switch of
\* its team in the next turn.
C7_ActiveUsableBeforeAttacks ==
  /\ SwitchesApplied => ActivesUsable(heap[Working])
  /\ \A id \in 1..Len(heap) : \A team_key \in TeamKeys :
       ActiveIndex(heap[id], team_key) < TeamSize(heap[id], team_key)

\* a team whose active combatant was fainted before the turn has switched
\* and the attacks of the turn are about to be applied
C7_ForcedSwitchApplied ==
  /\ SwitchesApplied
  /\ frame.k >= 1
  /\ Active(Given, TeamKey(frame.actions[1].user)).HP = 0
  /\ Active(heap[Working], TeamKey(frame.actions[1].user)).HP > 0

\* the objects the caller of simulate_turn holds: the state it passes and
\* the states in the turn records made so far
Held == {current_state} \cup {turns[i].state : i \in 1..Len(turns)}

\* C10: simulate_turn is a pure transformation of its input: the battle
\* state it was given and every state already stored in earlier turn
\* records stay unchanged; the effects of the turn appear only in the
\* returned state and log.  No step of the program changes an object that
\* the orchestrator holds.
C10_SimulateTurnPure == [][\A id \in Held : heap'[id] = heap[id]]_vars

\* simulate_turn has returned a state that differs from the one it was
\* given, with an earlier turn on record
C10_TurnChangedOnlyCopy ==
  /\ pc = "returned"
  /\ turn_result.state = Working
  /\ Len(turns) >= 1
  /\ frame.battle_state = current_state
  /\ heap[Working] # heap[current_state]

----------------------------------------------------------------------------
(* Properties of a call of apply_switch or apply_move.                     *)

\* the call made is one the function rejects: a switch to a fainted or to
\* the already active combatant, an attack by or on a fainted combatant
IllegalCall ==
  /\ call.made
  /\ \/ /\ call.fn = "apply_switch"
        /\ call.action.index < TeamSize(call.before, TeamKey(call.action.user))
        /\ \/ Pokemon(call.before, TeamKey(call.action.user),
                      call.action.index).HP <= 0
           \/ call.action.index
                = ActiveIndex(call.before, TeamKey(call.action.user))
     \/ /\ call.fn = "apply_move"
        /\ \/ Active(call.before, TeamKey(call.action.user)).HP <= 0
           \/ Active(call.before, OppKey(call.action.user)).HP <= 0

\* every combatant's HP and both active indexes are the same in two states
SameHPAndActive(a, b) ==
  \A team_key \in TeamKeys :
    /\ ActiveIndex(a, team_key) = ActiveIndex(b, team_key)
    /\ TeamSize(a, team_key) = TeamSize(b, team_key)
    /\ \A i \in 0..(TeamSize(a, team_key) - 1) :
         Pokemon(a, team_key, i).HP = Pokemon(b, team_key, i).HP

\* C8: an illegal action is a no-op apart from its log: apply_switch with a
\* fainted or already-active target, and apply_move with a fainted attacker
\* or a fainted target, raise no exception, leave every combatant's HP and
\* both active indexes unchanged, and return a non-empty log entry.
C8_IllegalActionIsNoOp ==
  IllegalCall =>
    /\ ~IsRaise(call.result)
    /\ SameHPAndActive(heap[1], call.before)
    /\ call.result.log # <<>>
    /\ call.result.effects = <<>>

\* a switch to a fainted combatant that is not the active one has been
\* rejected
C8_FaintedSwitchRejected ==
  /\ IllegalCall
  /\ call.fn = "apply_switch"
  /\ call.action.index # ActiveIndex(call.before, TeamKey(call.action.user))
  /\ call.result.log # <<>>

----------------------------------------------------------------------------
(* Properties of a call of find_best_move.                                 *)

\* the state passed to the k-th call of simulate_move still has the value it
\* had at that call, and the state returned is a new object
ParentIntact(k) ==
  /\ heap[search.calls[k].from] = search.calls[k].snapshot
  /\ search.calls[k].to = k + 1
  /\ search.calls[k].from <= k

\* C9: find_best_move never modifies the battle state passed by its caller,
\* and inside the search every child of a node is simulated from a copy of
\* the same unmodified parent state: exploring one move never changes the
\* HP seen when a sibling move or a later iteration is explored.
C9_SearchWorksOnCopies ==
  search.made =>
    /\ heap[search.battle_state] = search.input
    /\ \A k \in 1..Len(search.calls) : ParentIntact(k)
    /\ \A j, k \in 1..Len(search.calls) :
         search.calls[j].from = search.calls[k].from
           => search.calls[j].snapshot = search.calls[k].snapshot

\* find_best_move has returned after two iterations in which two moves were
\* tried on the caller's state, each changing the HP in its own copy
C9_SiblingsExplored ==
  /\ pc = "search_done"
  /\ search.iteration >= 2
  /\ \E j, k \in 1..Len(search.calls) :
       /\ j < k
       /\ search.calls[j].from = search.battle_state
       /\ search.calls[k].from = search.battle_state
       /\ ~SameHPAndActive(heap[search.calls[j].to], search.input)
       /\ ~SameHPAndActive(heap[search.calls[k].to], search.input)

\* the calls of simulate_move whose returned state minimax evaluated at
\* line 123: the leaves of the search
LeafCalls == {k \in 1..Len(search.calls) : search.calls[k].evaluated # << >>}

\* every combatant of the state has HP > 0 and its current_hp, if set, is
\* its HP
AllAtFullHP(battle_state) ==
  \A team_key \in TeamKeys :
    \A i \in 0..(TeamSize(battle_state, team_key) - 1) :
      /\ Pokemon(battle_state, team_key, i).HP > 0
      /\ Pokemon(battle_state, team_key, i).current_hp
           \in {Some(Pokemon(battle_state, team_key, i).HP), NoInt}
      /\ Pokemon(battle_state, team_key, i).current_hp = NoInt
           => Pokemon(battle_state, team_key, i).keys = {}

\* the sum over the first k combatants of a team of HP now / HP at the start
RECURSIVE HPShares(_, _, _)
HPShares(now, start, k) ==
  IF k = 0 THEN RInt(0)
  ELSE RAdd(HPShares(now, start, k - 1), R(now[k].HP, start[k].HP))

\* the mean over the roster of a team of current HP / HP at the start
MeanHPShare(now, start, team_key) ==
  RDiv(HPShares(now[team_key].pokemon, start[team_key].pokemon,
                Len(start[team_key].pokemon)),
       RInt(Len(start[team_key].pokemon)))

\* C14: for every state evaluated at a leaf of the search, evaluate_position
\* equals the mean over the player's roster of current HP / maximum HP minus
\* the same mean over the opponent's roster, where maximum HP is the
\* combatant's full HP at battle start, and the value lies in [-1, 1].
\* Stated for searches started with every combatant at full HP.
C14_LeafValueIsMeanHPShare ==
  search.made /\ AllAtFullHP(search.input) =>
    \A k \in LeafCalls :
      /\ search.calls[k].evaluated[1].exc = None
      /\ REq(search.calls[k].evaluated[1].value,
             RSub(MeanHPShare(heap[search.calls[k].to], search.input,
                              "player_team"),
                  MeanHPShare(heap[search.calls[k].to], search.input,
                              "opponent_team")))
      /\ RLe(RInt(-1), search.calls[k].evaluated[1].value)
      /\ RLe(search.calls[k].evaluated[1].value, RInt(1))

\* the player's team and its active combatant are those of the input, and
\* of the opponent's team at most the HP of the combatants has changed
OnlyOpponentHit(battle_state) ==
  /\ battle_state.player_team = search.input.player_team
  /\ battle_state.weather = search.input.weather
  /\ ActiveIndex(battle_state, "opponent_team")
       = ActiveIndex(search.input, "opponent_team")
  /\ TeamSize(battle_state, "opponent_team")
       = TeamSize(search.input, "opponent_team")
  /\ \A i \in 0..(TeamSize(battle_state, "opponent_team") - 1) :
       /\ Pokemon(battle_state, "opponent_team", i).name
            = Pokemon(search.input, "opponent_team", i).name
       /\ i # ActiveIndex(battle_state, "opponent_team") =>
            Pokemon(battle_state, "opponent_team", i)
              = Pokemon(search.input, "opponent_team", i)

\* the list find_best_move builds: at most one action for each iteration
\* made, each an attack of the player with a move its active combatant has;
\* the state the next iteration starts on differs from the input by attacks
\* on the opponent's active combatant alone
BestMovesArePlayerAttacks ==
  search.made =>
    /\ Len(search.best_moves) <= search.iteration
    /\ search.iteration <= search.depth
    /\ search.depth = 0 => search.best_moves = << >>
    /\ \A k \in 1..Len(search.best_moves) :
         /\ search.best_moves[k].action_type = "move"
         /\ search.best_moves[k].user = "player"
         /\ search.best_moves[k].index \in
              0..(Len(moves(Active(search.input, "player_team"))) - 1)
    /\ OnlyOpponentHit(heap[search.current_state])

\* between two iterations the state moves on by the attack just chosen and by
\* nothing else: the new state is a new object, and the HP of the opponent's
\* active combatant in it is what the chosen attack leaves
AdvancedByChosenAttack ==
  pc = "search_loop" /\ search'.current_state # search.current_state =>
    /\ search'.best_moves
         = Append(search.best_moves, search'.best_moves[Len(search'.best_moves)])
    /\ search'.current_state = Len(heap')
    /\ search'.exc = None =>
         TargetHP(heap'[search'.current_state],
                  search'.best_moves[Len(search'.best_moves)])
           = Max0(TargetHP(heap[search.current_state],
                           search'.best_moves[Len(search'.best_moves)])
                  - DamageOf(heap[search.current_state],
                             search'.best_moves[Len(search'.best_moves)]))

\* C15: find_best_move(state, depth) returns at most depth actions, exactly
\* none when depth is 0, and every returned action is an attack (never a
\* switch) issued by the player with a move index inside the player's active
\* combatant's move set; between successive iterations only the player's
\* chosen attack is applied and the opponent never acts.
C15_BestMovesArePlayerAttacks ==
  []BestMovesArePlayerAttacks /\ [][AdvancedByChosenAttack]_vars

\* find_best_move has returned two attacks for depth 2, and the opponent's
\* active combatant has lost HP to them
C15_TwoAttacksReturned ==
  /\ pc = "search_done"
  /\ search.depth = 2 /\ Len(search.best_moves) = 2
  /\ Active(heap[search.current_state], "opponent_team").HP
       < Active(search.input, "opponent_team").HP

\* C16: in the minimax of find_best_move, when the side to move at a ply has
\* no legal attacks (its active combatant's move set is empty), the value of
\* that branch is the static evaluation evaluate_position of that node's
\* state.  Checked at the root of the search, where the player moves.
C16_NoAttackGivesStaticEvaluation ==
  search.made =>
    \A j \in 1..Len(search.values) :
      /\ moves(Active(heap[search.roots[j]], "player_team")) = << >>
      /\ evaluate_position(heap[search.roots[j]]).exc = None
      => REq(search.values[j], evaluate_position(heap[search.roots[j]]).value)

\* minimax as lines 121-161 have it without the two cutoffs of lines 142-143
\* and 160-161, on the value of a state: [value, action, exc]
RECURSIVE PlainMinimax(_, _, _)
RECURSIVE PlainLoop(_, _, _, _, _, _)

\* the loop goes on from the value the child returned
PlainExplored(r, battle_state, depth, is_maximizing, i, best_eval, best_action) ==
  IF r.exc # None THEN [value |-> best_eval, action |-> NoAction, exc |-> r.exc]
  ELSE IF (IF is_maximizing THEN RLt(best_eval, r.value)
           ELSE RLt(r.value, best_eval))
  THEN PlainLoop(battle_state, depth, is_maximizing, i + 1, r.value,
                 BattleAction("move", Mover(is_maximizing), i))
  ELSE PlainLoop(battle_state, depth, is_maximizing, i + 1, best_eval,
                 best_action)

\* the child that simulate_move returned, or its exception
PlainChild(simulated, battle_state, depth, is_maximizing, i, best_eval, best_action) ==
  IF simulated.exc # None
  THEN [value |-> best_eval, action |-> NoAction, exc |-> simulated.exc]
  ELSE PlainExplored(PlainMinimax(simulated.heap[simulated.ref], depth - 1,
                                  ~is_maximizing),
                     battle_state, depth, is_maximizing, i, best_eval,
                     best_action)

PlainLoop(battle_state, depth, is_maximizing, i, best_eval, best_action) ==
  IF i >= Len(moves(Active(battle_state, TeamKey(Mover(is_maximizing)))))
  THEN [value |-> best_eval, action |-> best_action, exc |-> None]
  ELSE PlainChild(simulate_move(<<battle_state>>, 1,
                                BattleAction("move", Mover(is_maximizing), i)),
                  battle_state, depth, is_maximizing, i, best_eval, best_action)

PlainEvaluated(evaluated) ==
  [value |-> evaluated.value, action |-> NoAction, exc |-> evaluated.exc]

PlainMinimax(battle_state, depth, is_maximizing) ==
  IF depth = 0 THEN PlainEvaluated(evaluate_position(battle_state))
  ELSE PlainLoop(battle_state, depth, is_maximizing, 0,
                 IF is_maximizing THEN NegInf ELSE PosInf, NoAction)

\* the two outcomes are the same exception, or the same value and action
SameOutcome(pruned, plain) ==
  /\ pruned.exc = plain.exc
  /\ pruned.exc = None =>
       /\ REq(pruned.value, plain.value)
       /\ pruned.action = plain.action

\* C23: for every state and every depth >= 1, the minimax with alpha-beta
\* pruning inside find_best_move returns the same root value and the same
\* root action as the same minimax run without the beta <= alpha cutoff
\* (ties resolved to the lowest move index); it raises when that one raises.
\* Stated of the call of minimax made last, in every state: the state a
\* call started on is not written afterwards.
LastMinimaxed == search.minimaxed[Len(search.minimaxed)]

C23_CutoffKeepsRootOutcome ==
  search.made /\ search.minimaxed # << >> =>
    SameOutcome(LastMinimaxed,
                PlainMinimax(heap[LastMinimaxed.root], search.depth, TRUE))

\* a search of depth 2 between two combatants of two moves each has
\* returned two attacks after evaluating fewer leaves than the eight of the
\* two full trees: the cutoff has left moves unexplored
C23_LeavesCutOff ==
  /\ pc = "search_done"
  /\ search.depth = 2 /\ Len(search.best_moves) = 2
  /\ Len(moves(Active(search.input, "player_team"))) = 2
  /\ Len(moves(Active(search.input, "opponent_team"))) = 2
  /\ Cardinality(LeafCalls) < 8

----------------------------------------------------------------------------
(* Properties of a call of determine_best_action.                          *)

\* the team the call chose for, its active combatant, and the indexes of
\* its non-fainted combatants
Chooser == call.before[TeamKey(call.user)]

ChooserActive == Chooser.pokemon[Chooser.active_pokemon_index + 1]

NonFainted == {i \in 0..(Len(Chooser.pokemon) - 1) : Chooser.pokemon[i + 1].HP > 0}

\* C11: when the side's active combatant has HP 0, determine_best_action
\* returns a switch to the lowest-index non-fainted teammate, and returns
\* none exactly when the team has no non-fainted combatant.
C11_ForcedSwitchToFirstUsable ==
  call.made /\ ChooserActive.HP <= 0 =>
    /\ call.result = NoAction <=> NonFainted = {}
    /\ NonFainted # {} =>
         /\ call.result.action_type = "switch"
         /\ call.result.user = call.user
         /\ call.result.index \in NonFainted
         /\ \A j \in NonFainted : call.result.index <= j

\* the active combatant is fainted, two teammates are not, and the call
\* returned the switch to the one of lower index
C11_FirstOfTwoUsableChosen ==
  /\ call.made /\ ChooserActive.HP <= 0
  /\ Cardinality(NonFainted) >= 2
  /\ call.result.action_type = "switch"
  /\ \E j \in NonFainted : call.result.index < j

\* the moves of the active combatant and the score evaluate_move gives the
\* move of index i
ChooserMoves == moves(ChooserActive)

ScoreOf(i) == evaluate_move(ChooserMoves[i + 1], call.before, call.user)

\* the move of index i has the highest score, and no move of a lower index
\* has a score as high
HighestScoring(i) ==
  /\ i \in 0..(Len(ChooserMoves) - 1)
  /\ \A j \in 0..(Len(ChooserMoves) - 1) : RLe(ScoreOf(j), ScoreOf(i))
  /\ \A j \in 0..(i - 1) : RLt(ScoreOf(j), ScoreOf(i))

\* the highest score of a move, float('-inf') when there is no move
BestMoveScore ==
  IF ChooserMoves = << >> THEN NegInf
  ELSE ScoreOf(CHOOSE i \in 0..(Len(ChooserMoves) - 1) : HighestScoring(i))

\* C12: when the active combatant is not fainted, determine_best_action
\* returns a switch only if the best switch score is strictly greater than
\* the best move score plus 20; in every other case it returns the move with
\* the highest evaluate_move score, the lowest index among moves of equal
\* score.  The second part is about an active combatant that knows a move.
C12_SwitchOnlyAboveMargin ==
  call.made /\ ChooserActive.HP > 0 =>
    /\ call.result.action_type = "switch" =>
         RLt(RAdd(BestMoveScore, RInt(20)),
             evaluate_switches(call.before, call.user))
    /\ ChooserMoves # << >> /\ call.result.action_type # "switch" =>
         /\ call.result.action_type = "move"
         /\ call.result.user = call.user
         /\ HighestScoring(call.result.index)

\* a non-fainted active combatant has two moves of the same, highest score
\* and a teammate to switch to, the switch score is above the best move
\* score but not by more than 20, and the call returned the first move
C12_MoveKeptWithinMargin ==
  /\ call.made /\ ChooserActive.HP > 0
  /\ NonFainted \ {Chooser.active_pokemon_index} # {}
  /\ Len(ChooserMoves) = 2 /\ REq(ScoreOf(0), ScoreOf(1))
  /\ RLt(BestMoveScore, evaluate_switches(call.before, call.user))
  /\ call.result = BattleAction("move", call.user, 0)

\* the combatant of the other team the call chose against
FoeActive ==
  call.before[OppKey(call.user)].pokemon[
    call.before[OppKey(call.user)].active_pokemon_index + 1]

\* C13: when determine_best_action returns a voluntary switch (active
\* combatant not fainted), the incoming combatant is the legal switch target
\* whose own switch score is the maximum that triggered the switch, not
\* merely some non-fainted teammate.
C13_SwitchToBestScoringTarget ==
  call.made /\ ChooserActive.HP > 0 /\ call.result.action_type = "switch" =>
    /\ call.result.index \in NonFainted \ {Chooser.active_pokemon_index}
    /\ REq(SwitchScore(Chooser.pokemon[call.result.index + 1], FoeActive),
           evaluate_switches(call.before, call.user))


----------------------------------------------------------------------------
(* Properties of a turn with two attacks.                                  *)

\* both actions of the running or returned turn were attacks and both have
\* been applied, and the active combatant of the side that attacked second
\* is at HP 0: it chose its attack with HP > 0, so the first attack of the
\* turn brought it to 0
FaintedBeforeItsAttack ==
  /\ pc \in {"execute", "returned"}
  /\ Len(frame.actions) = 2 /\ frame.k = 2
  /\ frame.actions[1].action_type = "move"
  /\ frame.actions[2].action_type = "move"
  /\ Active(heap[frame.current_state], TeamKey(frame.actions[2].user)).HP = 0

\* C24: within one turn resolved by simulate_turn, if the first attack
\* reduces the other side's active combatant to 0 HP, that combatant's own
\* attack later in the same turn deals no damage and changes no HP: the
\* team of the first attacker is as it was when the turn began, and the log
\* of the turn ends with the note that the fainted combatant cannot move.
C24_FaintedAttackerDealsNothing ==
  FaintedBeforeItsAttack =>
    /\ heap[frame.current_state][TeamKey(frame.actions[1].user)]
         = heap[frame.battle_state][TeamKey(frame.actions[1].user)]
    /\ frame.turn_log[Len(frame.turn_log)]
         = Msg("{} cannot move because it is fainted",
               Active(heap[frame.current_state],
                      TeamKey(frame.actions[2].user)).name, "", 0)
    /\ \A k \in 1..Len(frame.turn_log) :
         frame.turn_log[k].template = "Dealt {} damage!" =>
           frame.turn_log[k].k
             = Active(heap[frame.battle_state],
                      TeamKey(frame.actions[2].user)).HP

\* the second attack of a turn has been applied for a combatant that the
\* first attack of the turn had brought from HP > 0 to HP 0, and the
\* attack it chose has a positive damage
C24_AttackAfterFainting ==
  /\ FaintedBeforeItsAttack
  /\ Active(heap[frame.battle_state], TeamKey(frame.actions[2].user)).HP > 0
  /\ DamageOf(heap[frame.battle_state], frame.actions[2]) > 0

----------------------------------------------------------------------------
(* Properties of the transcript of a battle.                               *)

\* simulate_turn applied an action of the turn that ran last and returned a
\* winner: the battle was decided in that turn
DecidedInTurn == turn_result.winner # None /\ frame # NoFrame /\ frame.k > 0

\* the turns in which simulate_turn applied actions: those that returned no
\* winner, turn_number - 1 of them, and the one that decided the battle
TurnsResolved == (turn_number - 1) + (IF DecidedInTurn THEN 1 ELSE 0)

\* C25: the transcript returned by calculate_battle_strategy contains one
\* turn record for every turn that was resolved, including the turn in which
\* the battle was decided, and each record carries the post-turn battle
\* state.
C25_EveryResolvedTurnRecorded ==
  pc = "done" /\ strategy.status = "return" =>
    /\ Len(strategy.turns) = TurnsResolved
    /\ \A k \in 1..Len(strategy.turns) :
         strategy.turns[k].state \in 1..Len(heap)

----------------------------------------------------------------------------
(* Properties of the outcome of a battle.                                  *)

Winners == {"player", "opponent"}

\* calculate_battle_strategy has returned a BattleStrategy
StrategyReturned == pc = "done" /\ strategy.status = "return"

\* the side that lost has no combatant with HP > 0 in the latest state
LoserDefeated ==
  ~Alive(heap[LatestState], TeamKey(Other(strategy.winner)))

WinnerAlive == Alive(heap[LatestState], TeamKey(strategy.winner))

\* no winner: 50 turns were resolved and both teams still have a combatant
\* with HP > 0
DrawOnlyAtTurnCap ==
  /\ Len(strategy.turns) = MaxTurns
  /\ Alive(heap[LatestState], "player_team")
  /\ Alive(heap[LatestState], "opponent_team")

\* C29 as stated: whenever calculate_battle_strategy reports a winner, the
\* losing side has no non-fainted combatant and the winning side has at
\* least one in the final state; a draw is reported only after 50 resolved
\* turns with both teams still having a non-fainted combatant.
C29_WinnerAliveLoserDefeated ==
  StrategyReturned =>
    IF strategy.winner \in Winners
    THEN LoserDefeated /\ WinnerAlive
    ELSE DrawOnlyAtTurnCap

\* C29: whenever calculate_battle_strategy reports a winner, the losing side
\* has no non-fainted combatant in the final state, and the winning side has
\* at least one unless both teams had none in the initial state, in which
\* case the opponent is reported as the winner with no turn resolved; a draw
\* is reported only after 50 resolved turns with both teams still having a
\* non-fainted combatant.
C29_WinnerAliveUnlessBothDefeatedAtStart ==
  StrategyReturned =>
    IF strategy.winner \in Winners
    THEN /\ LoserDefeated
         /\ \/ WinnerAlive
            \/ /\ BothDefeated(1)
               /\ strategy.winner = "opponent"
               /\ strategy.turns = <<>>
               /\ Len(heap) = 1
    ELSE DrawOnlyAtTurnCap

\* the opponent has won a battle in a turn after the first, with a combatant
\* left
C29_OpponentWonInLaterTurn ==
  /\ StrategyReturned
  /\ strategy.winner = "opponent"
  /\ DecidedInTurn
  /\ Len(strategy.turns) >= 1
  /\ WinnerAlive
  /\ LoserDefeated

----------------------------------------------------------------------------
(* Properties of the switches of a battle.                                 *)

\* the actions of the turn that simulate_turn has chosen and not yet applied
Pending ==
  IF frame = NoFrame \/ pc # "execute" THEN {}
  ELSE {frame.actions[k] : k \in (frame.k + 1)..Len(frame.actions)}

\* the switch goes to a combatant of the user's team that is not fainted and
\* not the active one
ValidSwitch(battle_state, action) ==
  /\ action.index \in 0..(TeamSize(battle_state, TeamKey(action.user)) - 1)
  /\ Pokemon(battle_state, TeamKey(action.user), action.index).HP > 0
  /\ action.index # ActiveIndex(battle_state, TeamKey(action.user))

Rejections ==
  {"Cannot switch to fainted {}", "Cannot switch to already active {}"}

Rejected(log) == \E k \in 1..Len(log) : log[k].template \in Rejections

\* C30: every switch returned by determine_best_action targets a non-fainted
\* combatant different from the active one, so in a battle run by
\* calculate_battle_strategy no switch is ever rejected by apply_switch as
\* invalid.
C30_NoSwitchRejected ==
  /\ \A action \in Pending :
       action.action_type = "switch" =>
         ValidSwitch(heap[frame.current_state], action)
  /\ frame # NoFrame => ~Rejected(frame.turn_log)
  /\ ~Rejected(battle_log)
  /\ pc = "done" /\ strategy.status = "return" => ~Rejected(strategy.battle_log)

\* a combatant that was not fainted has been withdrawn: the switch was
\* preferred to its best move
C30_VoluntarySwitchApplied ==
  /\ pc = "execute"
  /\ frame.k >= 1
  /\ frame.actions[1].action_type = "switch"
  /\ LET team == heap[frame.battle_state][TeamKey(frame.actions[1].user)]
     IN  team.pokemon[team.active_pokemon_index + 1].HP > 0
  /\ ActiveIndex(heap[frame.current_state], TeamKey(frame.actions[1].user))
       = frame.actions[1].index

----------------------------------------------------------------------------
(* Properties of the log of a battle.                                      *)

\* the log of the battle so far: battle_log, with the log of the turn that
\* is running or has just returned; the returned battle_log at the end
LogSoFar ==
  IF pc = "done" THEN strategy.battle_log
  ELSE IF pc = "returned" THEN battle_log \o turn_result.log
  ELSE IF pc \in {"choose", "execute"} THEN battle_log \o frame.turn_log
  ELSE battle_log

\* the positions of the log that hold the faint note of a combatant of the name
FaintNotes(log, name) ==
  {k \in 1..Len(log) : log[k] = Msg("{} fainted!", name, "", 0)}

\* the combatants of the name that had HP > 0 in the initial state and have
\* HP 0 now: HP is lowered by attacks alone
FaintedByAttack(name) ==
  {c \in TeamKeys \X (0..(MaxCombatants - 1)) :
     /\ c[2] < TeamSize(heap[1], c[1])
     /\ Pokemon(heap[1], c[1], c[2]).name = name
     /\ Pokemon(heap[1], c[1], c[2]).HP > 0
     /\ Pokemon(heap[LatestState], c[1], c[2]).HP = 0}

\* C17: over a whole battle run by calculate_battle_strategy, the faint note
\* for a combatant appears in the battle log exactly once if that combatant's
\* HP reaches 0 through an attack, and no second faint note is ever logged
\* for a combatant that is already fainted: at every point of the battle, and
\* in the returned log, the faint notes of a name are as many as the
\* combatants of that name an attack has brought to HP 0.
C17_OneFaintNotePerFaint ==
  strategy.status # "raise" =>
    \A name \in DOMAIN Dex :
      Cardinality(FaintNotes(LogSoFar, name))
        = Cardinality(FaintedByAttack(name))

\* a battle has returned in which an attack brought a combatant to HP 0 and
\* another combatant of the same name was fainted from the start: two of the
\* name are at HP 0 and the log holds one faint note for the name
C17_OneNoteForTwoAtZero ==
  /\ pc = "done" /\ strategy.status = "return"
  /\ \E name \in DOMAIN Dex :
       /\ Cardinality(FaintNotes(strategy.battle_log, name)) = 1
       /\ Cardinality(FaintedByAttack(name)) = 1
       /\ \E team_key \in TeamKeys :
            \E i \in 0..(TeamSize(heap[1], team_key) - 1) :
              /\ Pokemon(heap[1], team_key, i).name = name
              /\ Pokemon(heap[1], team_key, i).HP = 0

----------------------------------------------------------------------------
(* Properties of a call of battle_logic.calculate_damage.                  *)

\* C18: for every move, attacker, defender with a positive defending stat,
\* and weather, calculate_damage returns integers (min, max) with
\* 0 <= min <= max.  The moves have no power or a power >= 0; level and
\* stats are positive.
C18_DamageRangeOrdered ==
  call.made /\ DefenseStat(call.move, call.defender) > 0 =>
    /\ call.result \in Int \X Int
    /\ 0 <= call.result[1]
    /\ call.result[1] <= call.result[2]

\* a boosted attack whose two bounds differ has been computed
C18_RangeWithTwoBounds ==
  /\ call.made
  /\ call.move.power = Some(150) /\ call.weather = "Rain"
  /\ 0 < call.result[1] /\ call.result[1] < call.result[2]

\* TYPE_CHART gives the factor 0 for the type against a type of the defender
Immune(move_type, defender_types) ==
  \E k \in 1..Len(defender_types) :
    /\ defender_types[k] \in DOMAIN TYPE_CHART[move_type]
    /\ TYPE_CHART[move_type][defender_types[k]] = 0

\* C19: calculate_damage returns (0, 0) whenever the move has no base power,
\* and whenever the type effectiveness of the move against the defender is
\* 0, whatever the power, stats, STAB and weather.
C19_NoPowerOrImmuneGivesZero ==
  call.made =>
    /\ call.move.power = NoInt => call.result = <<0, 0>>
    /\ Immune(call.move.type, types(call.defender)) => call.result = <<0, 0>>

\* a move of power 150 of the attacker's own type, from the highest attack
\* stage, has returned (0, 0) against a defender that is immune to it
C19_StrongMoveOnImmune ==
  /\ call.made
  /\ call.move.power = Some(150)
  /\ InSeq(call.move.type, types(call.attacker))
  /\ call.attacker.stat_stages["Attack"] = MaxStage
  /\ Immune(call.move.type, types(call.defender))
  /\ call.result = <<0, 0>>

\* ai_logic.py lines 26-29
get_stat_stage_multiplier(stage) ==
  IF stage >= 0 THEN R(stage + 2, 2) ELSE R(2, Abs(stage) + 2)

\* ai_logic.py lines 11-16: stats[key] * get_stat_stage_multiplier(
\* stat_stages.get(key, 0))
StagedStat(pokemon, key) ==
  RMul(RInt(stats(pokemon, key)),
       get_stat_stage_multiplier(
         IF key \in DOMAIN pokemon.stat_stages
         THEN pokemon.stat_stages[key] ELSE 0))

\* ai_logic.py line 19 with the staged stats:
\* (2 * level / 5 + 2) * power * attack / defense / 50 + 2
StagedBaseDamage(lvl, base_power, attack, defense) ==
  RAdd(RDiv(RDiv(RMul(RMul(RAdd(R(2 * lvl, 5), RInt(2)), RInt(base_power)),
                      attack),
                 defense),
            RInt(50)),
       RInt(2))

\* the range of battle_logic.calculate_damage taken from the staged stats
StagedDamage(move, attacker, defender, weather) ==
  IF move.power = NoInt THEN <<0, 0>>
  ELSE DamageRange(
         RMul(StagedBaseDamage(
                level(attacker), move.power[1],
                StagedStat(attacker, IF move.category = "Physical"
                                     THEN "Attack" ELSE "Sp. Attack"),
                StagedStat(defender, IF move.category = "Physical"
                                     THEN "Defense" ELSE "Sp. Defense")),
              WeatherModifier(
                RMul(Stab(move, attacker),
                     calculate_type_effectiveness(move.type, types(defender))),
                move, weather)))

\* C20: the damage range used by the turn resolver scales the attacking stat
\* and the defending stat by each side's current stage multiplier (stage >= 0:
\* (stage+2)/2, stage < 0: 2/(|stage|+2)) before the base-damage formula, so
\* two attackers identical except for their Attack stage produce different
\* damage ranges.
C20_DamageUsesStatStages ==
  call.made =>
    call.result = StagedDamage(call.move, call.attacker, call.defender,
                               call.weather)

----------------------------------------------------------------------------
(* Properties of a call of calculate_type_effectiveness.                   *)

\* the factor of TYPE_CHART for a pair of types, 1 for a pair not listed
ChartFactor(move_type, def_type) ==
  IF def_type \in DOMAIN TYPE_CHART[move_type]
  THEN R(TYPE_CHART[move_type][def_type], 2) ELSE RInt(1)

\* the product of the factors of the one or two types of the defender
FactorProduct(move_type, defender_types) ==
  IF Len(defender_types) = 1
  THEN ChartFactor(move_type, defender_types[1])
  ELSE RMul(ChartFactor(move_type, defender_types[1]),
            ChartFactor(move_type, defender_types[2]))

\* C21: for every attack type and every ordered sequence of 1 or 2 defender
\* types drawn from the 18 types, calculate_type_effectiveness equals the
\* product of the per-type factors of TYPE_CHART (factor 1 for an unlisted
\* pair) and lies in {0, 0.25, 0.5, 1, 2, 4}.
C21_EffectivenessIsFactorProduct ==
  call.made =>
    /\ call.result = FactorProduct(call.move_type, call.defender_types)
    /\ call.result \in {RInt(0), R(1, 4), R(1, 2), RInt(1), RInt(2), RInt(4)}

\* the effectiveness against two types has been computed from a factor of
\* the first and a different factor of the second, neither of them 1
C21_TwoFactorsMultiplied ==
  /\ call.made
  /\ Len(call.defender_types) = 2
  /\ ChartFactor(call.move_type, call.defender_types[1]) = RInt(2)
  /\ ChartFactor(call.move_type, call.defender_types[2]) = R(1, 2)
  /\ call.result = RInt(1)

----------------------------------------------------------------------------
(* Properties of a call of evaluate_move or evaluate_switches.             *)

\* the attacker and the defender of an evaluated move, and the move
EvalAttacker == Active(call.before, TeamKey(call.user))

EvalDefender == Active(call.before, OppKey(call.user))

EvalMove == moves(EvalAttacker)[call.index + 1]

\* the score of the evaluated move before the bonus for priority: the damage
\* term, the bonus for STAB, the bonus for a super effective move
ScoreBeforePriority ==
  EffectivenessBonus(
    StabBonus(
      DamageScore(calculate_damage(EvalMove, EvalAttacker, EvalDefender,
                                   call.before.weather),
                  EvalDefender),
      EvalMove, EvalAttacker),
    calculate_type_effectiveness(EvalMove.type, types(EvalDefender)))

\* the HP of the combatant is below 30% of the full HP of its species
BelowThreeTenths(pokemon) == 10 * pokemon.HP < 3 * Dex[pokemon.name].fullHP

\* C22: evaluate_move adds 40 to the score of a move with positive priority
\* whenever the attacker's current HP is below 30% of its maximum HP, and
\* adds nothing for this heuristic otherwise.  Stated for an attacker that
\* has not fainted.
C22_PriorityBonusAtLowHP ==
  call.made /\ call.fn = "evaluate_move" /\ EvalAttacker.HP > 0 =>
    call.result
      = IF EvalMove.priority > 0 /\ BelowThreeTenths(EvalAttacker)
        THEN RAdd(ScoreBeforePriority, RInt(40))
        ELSE ScoreBeforePriority

\* the average of the damage range as a percentage of the full HP of the
\* defender's species
DamagePercentOfFullHP(dmg, defender) ==
  RMul(RDiv(R(dmg[1] + dmg[2], 2), RInt(Dex[defender.name].fullHP)), RInt(100))

\* C27: the damage term of evaluate_move's score is the average of the
\* damage range divided by the defender's maximum HP, times 100, so for fixed
\* attacker, move and defender it does not change as the defender loses HP
\* during the battle.  Stated for a defender that has not fainted.
C27_DamageTermOfFullHP ==
  call.made /\ call.fn = "evaluate_move" /\ EvalDefender.HP > 0 =>
    call.result
      = PriorityBonus(
          EffectivenessBonus(
            StabBonus(
              DamagePercentOfFullHP(
                calculate_damage(EvalMove, EvalAttacker, EvalDefender,
                                 call.before.weather),
                EvalDefender),
              EvalMove, EvalAttacker),
            calculate_type_effectiveness(EvalMove.type, types(EvalDefender))),
          EvalMove, EvalAttacker)

\* the score of the combatant of index i of the team evaluate_switches was
\* called for
TargetScore(i) ==
  SwitchScore(Pokemon(call.before, TeamKey(call.user), i), EvalDefender)

\* C28: the score returned by evaluate_switches is the maximum over legal
\* switch targets only: fainted combatants and the currently active
\* combatant contribute nothing, so a side whose only non-fainted combatant
\* is the active one has switch score 0.
C28_SwitchScoreOverLegalTargets ==
  call.made /\ call.fn = "evaluate_switches" =>
    /\ \A i \in SwitchTargets(call.before, TeamKey(call.user)) :
         RLe(TargetScore(i), call.result)
    /\ \/ call.result = RInt(0)
       \/ \E i \in SwitchTargets(call.before, TeamKey(call.user)) :
            call.result = TargetScore(i)

----------------------------------------------------------------------------
(* Properties of the effectiveness note of apply_move.                      *)

\* the call of apply_move used a move: neither combatant was fainted and the
\* index was inside the move list
MoveUsed ==
  /\ pc = "applied" /\ call.made /\ call.fn = "apply_move"
  /\ call.result.action_type = "result"
  /\ call.result.action_desc = "Used move"

UsedMove ==
  moves(Active(call.before, TeamKey(call.action.user)))[call.action.index + 1]

UsedEffectiveness ==
  calculate_type_effectiveness(
    UsedMove.type, types(Active(call.before, OppKey(call.action.user))))

\* the note that belongs to an effectiveness
NoteOf(effectiveness) ==
  IF RLt(RInt(1), effectiveness) THEN "It's super effective!"
  ELSE IF REq(effectiveness, RInt(0))
       THEN "It doesn't affect the opposing Pokemon..."
  ELSE IF RLt(effectiveness, RInt(1)) THEN "It's not very effective..."
  ELSE ""

EffectivenessNotes ==
  {"It's super effective!", "It's not very effective...",
   "It doesn't affect the opposing Pokemon..."}

NotesLogged ==
  SelectSeq(call.result.log, LAMBDA m : m.template \in EffectivenessNotes)

\* C26: the effectiveness note apply_move logs matches the effectiveness of
\* the move: 'super effective' when it is greater than 1, 'not very
\* effective' when it is strictly between 0 and 1, the 'no effect' note when
\* it is exactly 0, and no note when it is 1.
C26_NoteMatchesEffectiveness ==
  MoveUsed =>
    LET note == NoteOf(UsedEffectiveness) IN
      /\ NotesLogged = (IF note = "" THEN <<>>
                        ELSE << Msg(note, "", "", 0) >>)
      /\ call.result.effects = (IF note = "" THEN <<>> ELSE <<note>>)

----------------------------------------------------------------------------
(* Properties of the move determine_best_action selects.                    *)

\* the call of determine_best_action has ended, by a return or an exception
SelectionEnded ==
  pc = "selected" /\ call.made /\ call.fn = "determine_best_action"

\* C31: every move action returned by determine_best_action has an index
\* inside the active combatant's move set, for every team the request model
\* accepts (including a combatant with an empty move list), so applying the
\* selected action never indexes outside the move set.
C31_MoveIndexInsideMoveSet ==
  SelectionEnded =>
    /\ ~IsRaise(call.result)
    /\ call.result # NoAction /\ call.result.action_type = "move" =>
         call.result.index \in 0..(Len(moves(ChooserActive)) - 1)

----------------------------------------------------------------------------
(* Properties of what apply_move and apply_switch write.                    *)

\* the team the attack of the call was aimed at, and the place of its active
\* combatant in it
DefendingKey == OppKey(call.action.user)

DefenderPlace == ActiveIndex(call.before, DefendingKey) + 1

\* no combatant has more HP after the call than before it
NoHPRaised ==
  \A team_key \in TeamKeys :
    /\ TeamSize(heap[1], team_key) = TeamSize(call.before, team_key)
    /\ \A i \in 0..(TeamSize(call.before, team_key) - 1) :
         Pokemon(heap[1], team_key, i).HP
           <= Pokemon(call.before, team_key, i).HP

\* C32: an attack applied by apply_move changes only the HP of the defending
\* side's active combatant: the attacker's team, all benched combatants, both
\* active indexes and the field conditions are unchanged, and no operation
\* of the battle ever increases a combatant's HP.
C32_AttackChangesOnlyDefenderHP ==
  /\ MoveUsed =>
       heap[1] = [call.before EXCEPT
                    ![DefendingKey].pokemon[DefenderPlace].HP
                      = heap[1][DefendingKey].pokemon[DefenderPlace].HP]
  /\ pc = "applied" /\ call.made => NoHPRaised

\* an attack has lowered the HP of an active combatant that is not the first
\* of its team
C32_SecondOfTeamHit ==
  /\ MoveUsed
  /\ DefenderPlace = 2
  /\ heap[1][DefendingKey].pokemon[2].HP
       < call.before[DefendingKey].pokemon[2].HP
  /\ heap[1][DefendingKey].pokemon[1].HP > 0

----------------------------------------------------------------------------
(* Properties of evaluate_position inside the search.                       *)

\* C33: evaluation is total inside the search: evaluate_position returns a
\* value (no division by zero or other failure) for every state that
\* simulate_move can produce, including states in which a simulated attack
\* has reduced a combatant to 0 HP.  Stated for searches started with every
\* combatant at full HP.
C33_EvaluationTotalInSearch ==
  search.made /\ AllAtFullHP(search.input) =>
    \A k \in LeafCalls : search.calls[k].evaluated[1].exc = None

====
